---- MODULE Spec2Model ----
(***************************************************************************)
(* Nex-Store backend (src/backend/server.py): payment-notification         *)
(* reconciliation, wallet ledger, order lifecycle and maintenance jobs.    *)
(*                                                                         *)
(* The MongoDB database is the variable db, one field per collection.      *)
(* Documents carry the field names of the source.  A uuid is modelled by   *)
(* the position of the document in its collection (documents are never     *)
(* deleted by the modelled operations).  Times are minutes on the clock    *)
(* now.  All money is in paisa.                                            *)
(***************************************************************************)
EXTENDS Integers, Sequences, FiniteSets, TLC

\* ---------------------------------------------------------------------
\* Bounds of the model
\* ---------------------------------------------------------------------
\* each specification below caps the number of orders and notifications
\* (and the clock) in the guards of its Next

\* ---------------------------------------------------------------------
\* Encodings of Python/Mongo values
\* ---------------------------------------------------------------------
\* a field that the document does not contain
Missing == "MISSING"
\* Python None / BSON null, for string-valued fields
Null == "NULL"
\* Python None, for integer-valued fields (amounts, balance snapshots, ids)
NoneInt == -1

Users == {"u1", "u2"}

\* ---------------------------------------------------------------------
\* Program constants
\* ---------------------------------------------------------------------
MAX_OVERPAYMENT_RATIO == 3
MAX_AUTO_CREDIT_AMOUNT_PAISA == 100000
ADMIN_REDEEM_SINGLE_LIMIT_PAISA == 500000
REFUND_LOOKBACK_MINUTES == 5
MATCH_LIST_LIMIT == 20

DEFAULT_SYSTEM_SETTINGS ==
    [ auto_payment_check |-> TRUE,
      auto_topup |-> FALSE,
      max_overpayment_ratio |-> 3,
      max_wallet_credit |-> 1000000,
      automation_fail_threshold |-> 5,
      automation_fail_window_minutes |-> 10,
      order_expiry_minutes |-> 1440,
      payment_match_window_minutes |-> 60 ]

\* ---------------------------------------------------------------------
\* Pure utilities
\* ---------------------------------------------------------------------
Max(a, b) == IF a >= b THEN a ELSE b

\* math.ceil(n / d) for integers n >= 0, d > 0
Ceil(n, d) == (n + d - 1) \div d

\* a rounding that goes down to the multiple of one rupee
round_down_payment_paisa(amount_paisa) ==
    IF amount_paisa <= 0 THEN 0 ELSE (amount_paisa \div 100) * 100

\* round_up_payment_paisa: rupees = paisa/100; < 100 rupees: ceil to 1 rupee,
\* <= 500 rupees: ceil to 5 rupees, above: ceil to 10 rupees
round_up_payment_paisa(amount_paisa) ==
    IF amount_paisa <= 0 THEN 0
    ELSE IF amount_paisa < 10000 THEN Ceil(amount_paisa, 100) * 100
    ELSE IF amount_paisa <= 50000 THEN Ceil(amount_paisa, 500) * 500
    ELSE Ceil(amount_paisa, 1000) * 1000

\* A raw notification text.  body is the text without surrounding
\* whitespace: the amount, the masked sender number and the RRN label it
\* contains (NoneInt / Null when the text has no such part); pad tells
\* whether the text carries surrounding whitespace.
RawText(amt, last3, rrn, pad) ==
    [ body |-> [amt |-> amt, last3 |-> last3, rrn |-> rrn], pad |-> pad ]

\* raw_message.strip()
strip(raw) == [raw EXCEPT !.pad = FALSE]

\* generate_sms_fingerprint: sha256 of the stripped text (the digest is
\* modelled by the stripped text itself: equal digests iff equal texts)
generate_sms_fingerprint(raw) == [kind |-> "sha256", text |-> strip(raw).body]

\* parse_sms_message: independent best-effort extraction of each field
parse_sms_message(raw) ==
    [ amount_paisa |-> raw.body.amt,
      last3digits |-> raw.body.last3,
      rrn |-> raw.body.rrn ]

\* values of the fingerprint fields that are not digests of a text
NoText == [amt |-> NoneInt, last3 |-> Null, rrn |-> Null]
FpMissing == [kind |-> Missing, text |-> NoText]

\* the synthetic evidence of the order records written by the admin wallet
\* endpoints: f"ADMIN_RECHARGE_{order_id}" / f"ADMIN_REDEEM_{order_id}"
AdminRrn(kind, order_id) == <<kind, "order", order_id>>
\* the value process_payment stores in orders.payment_rrn for the rrn of a
\* notification (None is stored as an explicit null)
OrderRrn(rrn) == IF rrn = Null THEN <<Null>> ELSE <<"rrn", rrn>>
AdminFingerprint(kind, order_id) ==
    [kind |-> kind, text |-> [amt |-> order_id, last3 |-> Null, rrn |-> Null]]

\* ---------------------------------------------------------------------
\* State
\* ---------------------------------------------------------------------
VARIABLES
    db,     \* the database: users, wallet_transactions, orders,
            \* sms_messages, system_alerts, system_settings
    now,    \* the clock, in minutes
    tasks,  \* in-flight (suspended at an await) ledger coroutines
    resp,   \* the last operation run and its response (history)
    automation_failures,
            \* _automation_failures: the times of the recent fulfillment
            \* failures, kept in process memory for the circuit breaker
    system_settings_cache
            \* _system_settings_cache: the settings document kept in
            \* process memory, NoSettings until get_system_settings fills it

vars == <<db, now, tasks, resp, automation_failures, system_settings_cache>>

\* ---------------------------------------------------------------------
\* Documents
\* ---------------------------------------------------------------------
\* a wallet_transactions document
WalletTx(user_id, type, amount_paisa, order_id, before, after, reference_id) ==
    [ user_id |-> user_id, type |-> type, amount_paisa |-> amount_paisa,
      order_id |-> order_id, reference_id |-> reference_id,
      balance_before_paisa |-> before, balance_after_paisa |-> after ]

\* an orders document as the two order-intake endpoints and the two admin
\* wallet endpoints build it (order_doc)
OrderDoc(id, order_type, user_id, locked, wallet_used, required, load, status, t) ==
    [ id |-> id, order_type |-> order_type, user_id |-> user_id,
      locked_price_paisa |-> locked,
      wallet_used_paisa |-> wallet_used,
      payment_required_paisa |-> required,
      payment_amount_paisa |-> round_up_payment_paisa(required),
      load_amount_paisa |-> load,
      payment_last3digits |-> Null,
      payment_rrn |-> <<Missing>>,
      sms_fingerprint |-> FpMissing,
      payment_received_paisa |-> 0,
      overpayment_paisa |-> 0,
      status |-> status,
      suspicious_reason |-> Missing,
      retry_count |-> 0,
      automation_state |-> Missing,
      processing_started_at |-> NoneInt,
      created_at |-> t,
      expired_at |-> NoneInt ]

\* a sms_messages document (sms_doc)
SmsDoc(id, raw, fingerprint, amount, last3, rrn, received_at, suspicious, t) ==
    [ id |-> id, raw_message |-> raw, fingerprint |-> fingerprint,
      amount_paisa |-> amount, last3digits |-> last3, rrn |-> rrn,
      received_at |-> received_at, parsed_at |-> t,
      used |-> FALSE, matched_order_id |-> NoneInt,
      suspicious |-> suspicious, status |-> Missing,
      suspicious_reason |-> Missing ]

Alert(type, severity, entity_id) ==
    [ type |-> type, severity |-> severity, entity_id |-> entity_id ]

\* the response of the last operation; the fields an operation does not
\* set keep the values of NoResp
NoResp ==
    [ op |-> "none", raw |-> RawText(NoneInt, Null, Null, FALSE),
      order_id |-> NoneInt, sms_id |-> NoneInt, user_id |-> Null,
      amount |-> NoneInt, http |-> 200, duplicate |-> FALSE,
      matched |-> FALSE, status |-> Missing ]

\* the database after POST /admin/init (settings document, one active
\* Garena account, unique sparse indexes on orders.payment_rrn and
\* orders.sms_fingerprint, unique index on sms_messages.fingerprint) and the signup of the users, each with
\* wallet_balance_paisa 0; the settings have been read once, so the cache
\* holds the document
Init ==
    /\ db = [ users |-> [u \in Users |-> [wallet_balance_paisa |-> 0]],
              wallet_transactions |-> <<>>,
              orders |-> <<>>,
              sms_messages |-> <<>>,
              system_alerts |-> <<>>,
              garena_accounts |-> <<[active |-> TRUE]>>,
              system_settings |-> DEFAULT_SYSTEM_SETTINGS ]
    /\ now = 0
    /\ tasks = <<>>
    /\ resp = NoResp
    /\ automation_failures = <<>>
    /\ system_settings_cache = DEFAULT_SYSTEM_SETTINGS

\* ---------------------------------------------------------------------
\* Ledger helpers (run without interleaving)
\* ---------------------------------------------------------------------
\* a debit_wallet that never finds the balance insufficient
insufficient_never(old_balance, amount_paisa) == FALSE

\* debit_wallet: "if old_balance < amount_paisa: raise HTTPException(400)"
insufficient(old_balance, amount_paisa) == old_balance < amount_paisa

\* an admin_wallet_redeem that makes no check
redeem_rejected_never(old_balance, amount_paisa) == FALSE

\* admin_wallet_redeem: the single-action limit and the balance check
redeem_rejected(old_balance, amount_paisa) ==
    \/ amount_paisa > ADMIN_REDEEM_SINGLE_LIMIT_PAISA
    \/ amount_paisa > old_balance

\* credit_wallet: read the balance, $set the new balance, insert the
\* transaction with both snapshots
credit_wallet(d, user_id, amount_paisa, transaction_type, order_id) ==
    IF amount_paisa <= 0 THEN d
    ELSE LET old_balance == d.users[user_id].wallet_balance_paisa
             new_balance == old_balance + amount_paisa
         IN [d EXCEPT
               !.users[user_id].wallet_balance_paisa = new_balance,
               !.wallet_transactions = Append(@,
                   WalletTx(user_id, transaction_type, amount_paisa, order_id,
                            old_balance, new_balance, NoneInt))]

\* debit_wallet: raises HTTP 400 when the balance is short, else $set the
\* new balance and insert the transaction with a negative amount
debit_wallet(d, user_id, amount_paisa, transaction_type, order_id) ==
    IF amount_paisa <= 0 THEN [db |-> d, raised |-> FALSE]
    ELSE LET old_balance == d.users[user_id].wallet_balance_paisa
             new_balance == old_balance - amount_paisa
         IN IF insufficient(old_balance, amount_paisa)
            THEN [db |-> d, raised |-> TRUE]
            ELSE [db |-> [d EXCEPT
                     !.users[user_id].wallet_balance_paisa = new_balance,
                     !.wallet_transactions = Append(@,
                         WalletTx(user_id, transaction_type, -amount_paisa,
                                  order_id, old_balance, new_balance, NoneInt))],
                  raised |-> FALSE]

\* ---------------------------------------------------------------------
\* The unique sparse indexes on orders.payment_rrn and
\* orders.sms_fingerprint: an update is refused (DuplicateKeyError) when
\* another document that contains the field holds the same value; an
\* explicit null is a value.
\* ---------------------------------------------------------------------
\* a collection without the two indexes: no update is refused
DuplicateKey_never(d, order_id, payment_rrn, sms_fingerprint) == FALSE

DuplicateKey(d, order_id, payment_rrn, sms_fingerprint) ==
    \E j \in 1..Len(d.orders) :
        /\ d.orders[j].id # order_id
        /\ \/ d.orders[j].payment_rrn = payment_rrn
           \/ d.orders[j].sms_fingerprint = sms_fingerprint

\* create_system_alert
create_system_alert(d, alert_type, severity, entity_id) ==
    [d EXCEPT !.system_alerts = Append(@, Alert(alert_type, severity, entity_id))]

\* a process_payment that credits no load amount
load_amount_none(order) == 0

\* process_payment: "if order.get("order_type") == "wallet_load": load_amount =
\* order.get("load_amount_paisa", 0)", the amount credited besides the surplus
load_amount(order) ==
    IF order.order_type = "wallet_load" THEN order.load_amount_paisa ELSE 0

\* process_payment(order, payment_amount_paisa, rrn, raw_message,
\* sms_fingerprint): order is the document the caller read.  The result
\* holds the database after the call, the returned status and overpayment,
\* and whether the call raised (TypeError on a None amount,
\* DuplicateKeyError from the index) before it changed anything.
process_payment(d, order, payment_amount_paisa, rrn, sms_fingerprint) ==
    LET required_paisa == order.payment_required_paisa
        overpayment_paisa == Max(0, payment_amount_paisa - required_paisa)
        evidence(o) == [o EXCEPT !.payment_received_paisa = payment_amount_paisa,
                                 !.payment_rrn = OrderRrn(rrn),
                                 !.sms_fingerprint = sms_fingerprint]
        raise == [db |-> d, status |-> "raised", overpayment |-> 0, raised |-> TRUE]
    IN IF payment_amount_paisa = NoneInt THEN raise
       ELSE IF DuplicateKey(d, order.id, OrderRrn(rrn), sms_fingerprint) THEN raise
       ELSE IF payment_amount_paisa > required_paisa * MAX_OVERPAYMENT_RATIO
       THEN [db |-> [d EXCEPT !.orders[order.id] =
                        [evidence(@) EXCEPT !.status = "suspicious",
                                            !.suspicious_reason = "ratio"]],
             status |-> "suspicious", overpayment |-> 0, raised |-> FALSE]
       ELSE IF overpayment_paisa > MAX_AUTO_CREDIT_AMOUNT_PAISA
       THEN [db |-> [d EXCEPT !.orders[order.id] =
                        [evidence(@) EXCEPT !.status = "suspicious",
                                            !.overpayment_paisa = overpayment_paisa,
                                            !.suspicious_reason = "auto_credit_limit"]],
             status |-> "suspicious", overpayment |-> 0, raised |-> FALSE]
       ELSE LET d1 == [d EXCEPT !.orders[order.id] =
                          [evidence(@) EXCEPT !.status = "paid",
                                              !.overpayment_paisa = overpayment_paisa]]
                d2 == credit_wallet(d1, order.user_id, overpayment_paisa,
                                    "overpayment_credit", order.id)
                d3 == credit_wallet(d2, order.user_id, load_amount(order),
                                    "wallet_load", order.id)
            IN [db |-> d3, status |-> "paid", overpayment |-> overpayment_paisa,
                raised |-> FALSE]

\* add_to_queue without the order_type and auto_topup branches
add_to_queue_always(d, order_id) ==
    [d EXCEPT !.orders[order_id].status = "queued"]

\* add_to_queue
add_to_queue(d, order_id) ==
    IF d.orders[order_id].order_type # "product_topup"
    THEN [d EXCEPT !.orders[order_id].status = "success"]
    ELSE IF ~ d.system_settings.auto_topup
    THEN [d EXCEPT !.orders[order_id].status = "manual_pending"]
    ELSE [d EXCEPT !.orders[order_id].status = "queued"]

\* ---------------------------------------------------------------------
\* Order matcher
\* ---------------------------------------------------------------------
Indices(seq) == [i \in 1..Len(seq) |-> i]

\* db.orders.find({status: pending_payment, payment_last3digits: last3digits,
\* payment_required_paisa: {$lte: amount_paisa}}).sort("created_at", 1)
\* .to_list(20): the ids of the matching orders, oldest first.  Orders are
\* stored in creation order.
pending_orders(d, amount_paisa, last3digits) ==
    LET match(i) == /\ d.orders[i].status = "pending_payment"
                    /\ d.orders[i].payment_last3digits = last3digits
                    /\ d.orders[i].payment_required_paisa <= amount_paisa
        found == SelectSeq(Indices(d.orders), match)
    IN IF Len(found) > MATCH_LIST_LIMIT THEN SubSeq(found, 1, MATCH_LIST_LIMIT)
       ELSE found

\* a loop that keeps the first (oldest) candidate
first_candidate(d, candidates, amount_paisa, best_order, best_overpayment) ==
    IF candidates = <<>> THEN best_order ELSE Head(candidates)

\* the loop "for order in pending_orders": keep the first order whose
\* overpayment is strictly smaller than the best so far
RECURSIVE best_order_loop(_, _, _, _, _)
best_order_loop(d, candidates, amount_paisa, best_order, best_overpayment) ==
    IF candidates = <<>> THEN best_order
    ELSE LET order == Head(candidates)
             overpayment == amount_paisa - d.orders[order].payment_required_paisa
         IN IF best_order = NoneInt \/ overpayment < best_overpayment
            THEN best_order_loop(d, Tail(candidates), amount_paisa, order, overpayment)
            ELSE best_order_loop(d, Tail(candidates), amount_paisa, best_order,
                                 best_overpayment)

set_sms(d, sms_id, status, used, suspicious, reason) ==
    [d EXCEPT !.sms_messages[sms_id] =
        [@ EXCEPT !.status = status, !.used = used, !.suspicious = suspicious,
                  !.suspicious_reason = reason]]

\* try_match_sms_to_orders(sms_doc): the result holds the database after the
\* call and the id of the returned order (NoneInt for None)
try_match_sms_to_orders(d, sms_doc, t) ==
    LET settings == d.system_settings
        amount_paisa == sms_doc.amount_paisa
        last3digits == sms_doc.last3digits
        rrn == sms_doc.rrn
        fingerprint == sms_doc.fingerprint
        sms_received_at == IF sms_doc.received_at # NoneInt THEN sms_doc.received_at
                           ELSE sms_doc.parsed_at
        cur == d.sms_messages[sms_doc.id]
        none(dd) == [db |-> dd, best_order |-> NoneInt]
        candidates == pending_orders(d, amount_paisa, last3digits)
        best_order == best_order_loop(d, candidates, amount_paisa, NoneInt, 0)
        required_amount == d.orders[best_order].payment_required_paisa
    IN IF amount_paisa = NoneInt \/ amount_paisa = 0 \/ last3digits = Null
       THEN none(d)
       ELSE IF rrn # Null /\ \E j \in 1..Len(d.orders) :
                                 d.orders[j].payment_rrn = OrderRrn(rrn)
       THEN none(create_system_alert(
                set_sms(d, sms_doc.id, "duplicate_payment", TRUE, cur.suspicious,
                        cur.suspicious_reason),
                "duplicate_payment", "warning", NoneInt))
       ELSE IF \E j \in 1..Len(d.orders) : d.orders[j].sms_fingerprint = fingerprint
       THEN none(set_sms(d, sms_doc.id, "duplicate_payment", TRUE, cur.suspicious,
                         cur.suspicious_reason))
       ELSE IF ~ settings.auto_payment_check
       THEN none(set_sms(d, sms_doc.id, "manual_review", cur.used, cur.suspicious,
                         cur.suspicious_reason))
       ELSE IF t - sms_received_at > settings.payment_match_window_minutes
       THEN none(set_sms(d, sms_doc.id, "manual_review", cur.used, cur.suspicious,
                         cur.suspicious_reason))
       ELSE IF candidates = <<>> THEN none(d)
       ELSE IF amount_paisa > required_amount * settings.max_overpayment_ratio
       THEN none(create_system_alert(
                set_sms(d, sms_doc.id, "suspicious", cur.used, "true",
                        "overpayment_ratio_exceeded"),
                "suspicious_payment", "critical", best_order))
       ELSE IF amount_paisa - required_amount > settings.max_wallet_credit
       THEN none(create_system_alert(
                set_sms(d, sms_doc.id, "suspicious", cur.used, "true",
                        "leftover_exceeds_max_wallet_credit"),
                "suspicious_payment", "critical", best_order))
       ELSE [db |-> d, best_order |-> best_order]

OrderIds == 1..Len(db.orders)
SmsIds == 1..Len(db.sms_messages)

\* ---------------------------------------------------------------------
\* Order intake
\* ---------------------------------------------------------------------
\* POST /orders/create
create_product_order(user_id, locked_price_paisa) ==
    /\ LET order_id == Len(db.orders) + 1
           wallet_balance_paisa == db.users[user_id].wallet_balance_paisa
           full == wallet_balance_paisa > 0 /\ wallet_balance_paisa >= locked_price_paisa
           part == wallet_balance_paisa > 0 /\ ~ full
           wallet_used_paisa == IF full THEN locked_price_paisa
                                ELSE IF part THEN wallet_balance_paisa ELSE 0
           payment_required_paisa == IF full THEN 0
                                     ELSE IF part THEN locked_price_paisa - wallet_balance_paisa
                                     ELSE locked_price_paisa
           status == IF full THEN "paid" ELSE "pending_payment"
           order_doc == OrderDoc(order_id, "product_topup", user_id, locked_price_paisa,
                                 wallet_used_paisa, payment_required_paisa, 0, status, now)
           d1 == [db EXCEPT !.orders = Append(@, order_doc)]
           deb == debit_wallet(d1, user_id, wallet_used_paisa, "order_payment", order_id)
           d3 == IF status = "paid" THEN add_to_queue(deb.db, order_id) ELSE deb.db
       IN /\ db' = IF deb.raised THEN deb.db ELSE d3
          /\ resp' = [NoResp EXCEPT !.op = "create_product_order", !.user_id = user_id,
                                    !.order_id = order_id, !.status = status,
                                    !.http = IF deb.raised THEN 400 ELSE 200]
    /\ UNCHANGED <<now, tasks, automation_failures, system_settings_cache>>

\* POST /orders/wallet-load
create_wallet_load_order(user_id, load_amount_paisa) ==
    /\ load_amount_paisa >= 1000
    /\ LET order_id == Len(db.orders) + 1
           order_doc == OrderDoc(order_id, "wallet_load", user_id, load_amount_paisa,
                                 0, load_amount_paisa, load_amount_paisa,
                                 "pending_payment", now)
       IN /\ db' = [db EXCEPT !.orders = Append(@, order_doc)]
          /\ resp' = [NoResp EXCEPT !.op = "create_wallet_load_order",
                                    !.user_id = user_id, !.order_id = order_id,
                                    !.status = "pending_payment"]
    /\ UNCHANGED <<now, tasks, automation_failures, system_settings_cache>>

\* ---------------------------------------------------------------------
\* Admin wallet endpoints
\* ---------------------------------------------------------------------
\* the wallet_load order record both endpoints insert, already in success
AdminOrderDoc(kind, order_id, user_id, amount_paisa, load, received, t) ==
    [ OrderDoc(order_id, "wallet_load", user_id, amount_paisa, 0, 0, load,
               "success", t)
      EXCEPT !.payment_rrn = AdminRrn(kind, order_id),
             !.sms_fingerprint = AdminFingerprint(kind, order_id),
             !.payment_received_paisa = received ]

\* POST /admin/users/{user_id}/wallet/recharge
admin_wallet_recharge(user_id, amount_paisa) ==
    /\ amount_paisa > 0
    /\ LET order_id == Len(db.orders) + 1
           old_balance == db.users[user_id].wallet_balance_paisa
           new_balance == old_balance + amount_paisa
       IN /\ db' = [db EXCEPT
                      !.users[user_id].wallet_balance_paisa = new_balance,
                      !.wallet_transactions = Append(@,
                          WalletTx(user_id, "credit", amount_paisa, order_id,
                                   old_balance, new_balance, NoneInt)),
                      !.orders = Append(@,
                          AdminOrderDoc("ADMIN_RECHARGE", order_id, user_id,
                                        amount_paisa, amount_paisa, amount_paisa, now))]
          /\ resp' = [NoResp EXCEPT !.op = "admin_wallet_recharge",
                                    !.user_id = user_id, !.order_id = order_id,
                                    !.amount = amount_paisa]
    /\ UNCHANGED <<now, tasks, automation_failures, system_settings_cache>>

\* POST /admin/users/{user_id}/wallet/redeem
admin_wallet_redeem(user_id, amount_paisa) ==
    /\ amount_paisa > 0
    /\ LET order_id == Len(db.orders) + 1
           old_balance == db.users[user_id].wallet_balance_paisa
           new_balance == old_balance - amount_paisa
           rejected == redeem_rejected(old_balance, amount_paisa)
       IN /\ db' = IF rejected THEN db
                   ELSE [db EXCEPT
                      !.users[user_id].wallet_balance_paisa = new_balance,
                      !.wallet_transactions = Append(@,
                          WalletTx(user_id, "debit", -amount_paisa, order_id,
                                   old_balance, new_balance, NoneInt)),
                      !.orders = Append(@,
                          AdminOrderDoc("ADMIN_REDEEM", order_id, user_id,
                                        amount_paisa, -amount_paisa, 0, now))]
          /\ resp' = [NoResp EXCEPT !.op = "admin_wallet_redeem",
                                    !.user_id = user_id, !.amount = amount_paisa,
                                    !.order_id = IF rejected THEN NoneInt ELSE order_id,
                                    !.http = IF rejected THEN 400 ELSE 200]
    /\ UNCHANGED <<now, tasks, automation_failures, system_settings_cache>>

\* ---------------------------------------------------------------------
\* Scheduled job: expire stale orders
\* ---------------------------------------------------------------------
\* the refund loop over expired_orders: $inc on the balance and a refund
\* transaction that carries reference_id and no balance snapshots
RECURSIVE refund_loop(_, _)
refund_loop(d, expired_orders) ==
    IF expired_orders = <<>> THEN d
    ELSE LET order == d.orders[Head(expired_orders)]
             wallet_used == order.wallet_used_paisa
             d1 == IF wallet_used > 0
                   THEN [d EXCEPT
                          !.users[order.user_id].wallet_balance_paisa = @ + wallet_used,
                          !.wallet_transactions = Append(@,
                              WalletTx(order.user_id, "refund", wallet_used, NoneInt,
                                       NoneInt, NoneInt, order.id))]
                   ELSE d
         IN refund_loop(d1, Tail(expired_orders))

expire_old_orders ==
    /\ LET expiry_threshold == now - db.system_settings.order_expiry_minutes
           stale(i) == /\ db.orders[i].status = "pending_payment"
                       /\ db.orders[i].created_at < expiry_threshold
           modified_count == Cardinality({i \in OrderIds : stale(i)})
           d1 == [db EXCEPT !.orders =
                    [i \in OrderIds |->
                        IF stale(i) THEN [db.orders[i] EXCEPT !.status = "expired",
                                                              !.expired_at = now]
                        ELSE db.orders[i]]]
           recent(i) == /\ d1.orders[i].status = "expired"
                        /\ d1.orders[i].expired_at > now - REFUND_LOOKBACK_MINUTES
                        /\ d1.orders[i].wallet_used_paisa > 0
           expired_orders == SelectSeq(Indices(d1.orders), recent)
       IN /\ db' = IF modified_count > 0 THEN refund_loop(d1, expired_orders) ELSE d1
          /\ resp' = [NoResp EXCEPT !.op = "expire_old_orders", !.amount = modified_count]
    /\ UNCHANGED <<now, tasks, automation_failures, system_settings_cache>>

\* ---------------------------------------------------------------------
\* Settings, time
\* ---------------------------------------------------------------------
\* PUT /admin/system-settings -> update_system_settings(updates)
update_settings(updates) ==
    /\ db' = [db EXCEPT !.system_settings =
                [k \in DOMAIN @ |-> IF k \in DOMAIN updates THEN updates[k] ELSE @[k]]]
    /\ system_settings_cache' = db'.system_settings
    /\ resp' = [NoResp EXCEPT !.op = "update_settings"]
    /\ UNCHANGED <<now, tasks, automation_failures>>

\* a minute passes
Tick ==
    /\ now' = now + 1
    /\ resp' = [NoResp EXCEPT !.op = "Tick"]
    /\ UNCHANGED <<db, tasks, automation_failures, system_settings_cache>>

\* ---------------------------------------------------------------------
\* Payment ingestion
\* ---------------------------------------------------------------------
\* a duplicate check that never finds the fingerprint
fingerprint_never(d, fingerprint) == FALSE

\* existing = await db.sms_messages.find_one({"fingerprint": fingerprint})
fingerprint_exists(d, fingerprint) ==
    \E i \in 1..Len(d.sms_messages) : d.sms_messages[i].fingerprint = fingerprint

mark_used(d, sms_id, order_id) ==
    [d EXCEPT !.sms_messages[sms_id].used = TRUE,
              !.sms_messages[sms_id].matched_order_id = order_id]

\* the common body of receive_sms and admin_input_sms after the duplicate
\* check: insert sms_doc, try to match, re-check the RRN, process the
\* payment, mark the notification used, enqueue.  An exception raised by
\* process_payment leaves the handler (HTTP 500) with the writes made so far.
ingest_text(op, raw, suspicious) ==
    LET parsed == parse_sms_message(raw)
        fingerprint == generate_sms_fingerprint(raw)
        sms_id == Len(db.sms_messages) + 1
        sms_doc == SmsDoc(sms_id, raw, fingerprint, parsed.amount_paisa,
                          parsed.last3digits, parsed.rrn, NoneInt, suspicious, now)
        d1 == [db EXCEPT !.sms_messages = Append(@, sms_doc)]
        tm == try_match_sms_to_orders(d1, sms_doc, now)
        best_order == tm.best_order
        rrn_used == parsed.rrn # Null /\ \E j \in 1..Len(tm.db.orders) :
                        tm.db.orders[j].payment_rrn = OrderRrn(parsed.rrn)
        pp == process_payment(tm.db, tm.db.orders[best_order], parsed.amount_paisa,
                              parsed.rrn, fingerprint)
        d3 == mark_used(pp.db, sms_id, best_order)
        d4 == IF pp.status = "paid" THEN add_to_queue(d3, best_order) ELSE d3
        r0 == [NoResp EXCEPT !.op = op, !.raw = raw, !.sms_id = sms_id,
                             !.amount = parsed.amount_paisa]
    IN IF fingerprint_exists(db, fingerprint)
       THEN /\ db' = db
            /\ resp' = [NoResp EXCEPT !.op = op, !.raw = raw, !.duplicate = TRUE]
       ELSE IF best_order = NoneInt
               THEN db' = tm.db /\ resp' = r0
               ELSE IF rrn_used
               THEN db' = tm.db /\ resp' = [r0 EXCEPT !.order_id = best_order]
               ELSE IF pp.raised
               THEN db' = tm.db /\ resp' = [r0 EXCEPT !.order_id = best_order,
                                                      !.http = 500, !.status = "raised"]
               ELSE db' = d4 /\ resp' = [r0 EXCEPT !.order_id = best_order,
                                                   !.matched = TRUE,
                                                   !.status = pp.status]

\* POST /sms/receive
receive_sms(raw) ==
    /\ ingest_text("receive_sms", raw, "false")
    /\ UNCHANGED <<now, tasks, automation_failures, system_settings_cache>>

\* POST /admin/sms/input (its sms_doc has no suspicious field)
admin_input_sms(raw) ==
    /\ ingest_text("admin_input_sms", raw, Missing)
    /\ UNCHANGED <<now, tasks, automation_failures, system_settings_cache>>

\* a fingerprint computed by the forwarder app on the device
DeviceFingerprint(raw) == [kind |-> "device", text |-> raw.body]

\* POST /sms/ingest: request.sms_fingerprint, request.rrn and
\* request.received_at come from the device; amount, last digits and rrn of
\* the text are parsed server-side when the device did not send them
sms_ingest(raw, sms_fingerprint, request_rrn, received_at) ==
    /\ LET parsed == parse_sms_message(raw)
           sms_id == Len(db.sms_messages) + 1
           rrn == IF request_rrn # Null THEN request_rrn ELSE parsed.rrn
           sms_doc == SmsDoc(sms_id, raw, sms_fingerprint, parsed.amount_paisa,
                             parsed.last3digits, rrn, received_at, "false", now)
           d1 == [db EXCEPT !.sms_messages = Append(@, sms_doc)]
           tm == try_match_sms_to_orders(d1, sms_doc, now)
           r0 == [NoResp EXCEPT !.op = "sms_ingest", !.raw = raw,
                                !.amount = parsed.amount_paisa]
           existing_rrn == request_rrn # Null /\ \E i \in SmsIds :
                               db.sms_messages[i].rrn = request_rrn
       IN IF fingerprint_exists(db, sms_fingerprint) \/ existing_rrn
          THEN /\ db' = db
               /\ resp' = [r0 EXCEPT !.http = 409, !.duplicate = TRUE]
          ELSE /\ db' = tm.db
               /\ resp' = [r0 EXCEPT !.sms_id = sms_id,
                                     !.matched = (tm.best_order # NoneInt),
                                     !.order_id = tm.best_order]
    /\ UNCHANGED <<now, tasks, automation_failures, system_settings_cache>>

\* ---------------------------------------------------------------------
\* Payment verification and manual linking
\* ---------------------------------------------------------------------
\* the notifications find_one can return in verify_payment: the unused ones
\* with amount >= required and the same last digits, latest parsed_at first
\* (any of them on equal parsed_at); when there is none, the first unused
\* one with exactly the sent amount
matching_sms(d, required_paisa, sent_amount_paisa, last_3_digits) ==
    LET unused(i) == /\ ~ d.sms_messages[i].used
                     /\ d.sms_messages[i].last3digits = last_3_digits
        ids == 1..Len(d.sms_messages)
        by_required == {i \in ids : /\ unused(i)
                                    /\ d.sms_messages[i].amount_paisa # NoneInt
                                    /\ d.sms_messages[i].amount_paisa >= required_paisa}
        latest == {i \in by_required : \A j \in by_required :
                      d.sms_messages[j].parsed_at <= d.sms_messages[i].parsed_at}
        by_sent == {i \in ids : /\ unused(i)
                                /\ d.sms_messages[i].amount_paisa = sent_amount_paisa}
    IN IF by_required # {} THEN latest
       ELSE {i \in by_sent : \A j \in by_sent : i <= j}

\* POST /orders/verify-payment, called by the owner of the order
verify_payment(order_id, sent_amount_paisa, last_3_digits) ==
    /\ order_id \in OrderIds
    /\ db.orders[order_id].status \in {"pending_payment", "manual_review"}
    /\ LET order == db.orders[order_id]
           d1 == [db EXCEPT !.orders[order_id].payment_last3digits = last_3_digits]
           found == matching_sms(d1, order.payment_required_paisa, sent_amount_paisa,
                                 last_3_digits)
           r0 == [NoResp EXCEPT !.op = "verify_payment", !.order_id = order_id]
       IN IF found = {}
          THEN /\ db' = [d1 EXCEPT !.orders[order_id].status = "manual_review"]
               /\ resp' = [r0 EXCEPT !.status = "manual_review"]
          ELSE \E sms_id \in found :
               LET sms == d1.sms_messages[sms_id]
                   other(j) == d1.orders[j].id # order_id
                   dup == \/ /\ sms.rrn # Null
                             /\ \E j \in OrderIds : other(j) /\
                                   d1.orders[j].payment_rrn = OrderRrn(sms.rrn)
                          \/ \E j \in OrderIds : other(j) /\
                                   d1.orders[j].sms_fingerprint = sms.fingerprint
                   d2 == mark_used(d1, sms_id, order_id)
                   pp == process_payment(d2, order, sms.amount_paisa, sms.rrn,
                                         sms.fingerprint)
                   d4 == IF pp.status = "paid" THEN add_to_queue(pp.db, order_id)
                         ELSE pp.db
                   r1 == [r0 EXCEPT !.sms_id = sms_id, !.amount = sms.amount_paisa]
               IN IF dup
                  THEN /\ db' = [d1 EXCEPT !.orders[order_id].status = "duplicate_payment"]
                       /\ resp' = [r1 EXCEPT !.status = "duplicate_payment"]
                  ELSE /\ db' = d4
                       /\ resp' = [r1 EXCEPT !.status = pp.status,
                                             !.matched = ~ pp.raised,
                                             !.http = IF pp.raised THEN 500 ELSE 200]
    /\ UNCHANGED <<now, tasks, automation_failures, system_settings_cache>>

\* the common body of link_payment_to_order and admin_manual_match: no
\* check of the order's status or of the evidence already on other orders
link_body(op, payment_id, order_id) ==
    /\ payment_id \in SmsIds
    /\ order_id \in OrderIds
    /\ ~ db.sms_messages[payment_id].used
    /\ LET payment == db.sms_messages[payment_id]
           order == db.orders[order_id]
           pp == process_payment(db, order, payment.amount_paisa, payment.rrn,
                                 payment.fingerprint)
           d2 == mark_used(pp.db, payment_id, order_id)
           d3 == IF pp.status = "paid" THEN add_to_queue(d2, order_id) ELSE d2
           r0 == [NoResp EXCEPT !.op = op, !.order_id = order_id,
                                !.sms_id = payment_id, !.amount = payment.amount_paisa]
       IN IF pp.raised
          THEN db' = db /\ resp' = [r0 EXCEPT !.http = 500, !.status = "raised"]
          ELSE db' = d3 /\ resp' = [r0 EXCEPT !.status = pp.status, !.matched = TRUE]
    /\ UNCHANGED <<now, tasks, automation_failures, system_settings_cache>>

\* POST /staff/payments/{payment_id}/link
link_payment_to_order(payment_id, order_id) ==
    link_body("link_payment_to_order", payment_id, order_id)

\* POST /admin/sms/match/{sms_id}
admin_manual_match(sms_id, order_id) ==
    link_body("admin_manual_match", sms_id, order_id)

\* PUT /admin/orders/{order_id} with a status: an admin re-opens an order
\* that waits in manual_review
admin_update_order(order_id, status) ==
    /\ order_id \in OrderIds
    /\ db' = [db EXCEPT !.orders[order_id].status = status]
    /\ resp' = [NoResp EXCEPT !.op = "admin_update_order", !.order_id = order_id,
                              !.status = status]
    /\ UNCHANGED <<now, tasks, automation_failures, system_settings_cache>>

\* =====================================================================
\* Ledger coroutines, one step per database round trip (every "await
\* db..." lets the event loop run another coroutine)
\* =====================================================================
\* the coroutines modelled: credit_wallet (as called by process_payment),
\* admin_wallet_redeem and create_product_order with the debit_wallet call
\* it makes; admin_wallet_recharge reads and writes the balance the way
\* credit_wallet does
Task(op, user_id, amount_paisa, pc) ==
    [ op |-> op, user_id |-> user_id, amount_paisa |-> amount_paisa, pc |-> pc,
      old_balance |-> NoneInt, wallet_used_paisa |-> 0, order_id |-> NoneInt,
      status |-> Missing ]

TaskIds == 1..Len(tasks)

\* create_product_order: user = await db.users.find_one(...), the first
\* thing the handler does; the wallet usage is computed from that balance
cpo_read_user(user_id, locked_price_paisa) ==
    /\ LET wallet_balance_paisa == db.users[user_id].wallet_balance_paisa
           full == wallet_balance_paisa > 0 /\ wallet_balance_paisa >= locked_price_paisa
           part == wallet_balance_paisa > 0 /\ ~ full
       IN tasks' = Append(tasks,
              [Task("create_product_order", user_id, locked_price_paisa, "insert_order")
               EXCEPT
              !.wallet_used_paisa = IF full THEN locked_price_paisa
                                    ELSE IF part THEN wallet_balance_paisa ELSE 0,
              !.status = IF full THEN "paid" ELSE "pending_payment"])
    /\ UNCHANGED <<db, now, resp, automation_failures, system_settings_cache>>

\* create_product_order: await db.orders.insert_one(order_doc)
cpo_insert_order(t) ==
    /\ tasks[t].op = "create_product_order" /\ tasks[t].pc = "insert_order"
    /\ LET order_id == Len(db.orders) + 1
           k == tasks[t]
       IN /\ db' = [db EXCEPT !.orders = Append(@,
                      OrderDoc(order_id, "product_topup", k.user_id, k.amount_paisa,
                               k.wallet_used_paisa, k.amount_paisa - k.wallet_used_paisa,
                               0, k.status, now))]
          /\ tasks' = [tasks EXCEPT ![t] = [@ EXCEPT
                 !.order_id = order_id,
                 !.pc = IF k.wallet_used_paisa > 0 THEN "find" ELSE "done"]]
    /\ UNCHANGED <<now, resp, automation_failures, system_settings_cache>>

\* the amount the coroutine moves: wallet_used for an order, else the
\* requested amount
moved(k) == IF k.op = "create_product_order" THEN k.wallet_used_paisa
            ELSE k.amount_paisa
is_debit(k) == k.op \in {"create_product_order", "admin_wallet_redeem"}

\* user = await db.users.find_one({"id": user_id}) and the checks made on
\* the balance read, in credit_wallet, debit_wallet and admin_wallet_redeem
found_user(k, old_balance) ==
    LET raise == \/ k.op = "create_product_order" /\ insufficient(old_balance, moved(k))
                 \/ k.op = "admin_wallet_redeem" /\ redeem_rejected(old_balance, moved(k))
    IN [k EXCEPT !.old_balance = old_balance,
                 !.pc = IF raise THEN "raised" ELSE "update"]

\* credit_wallet, admin_wallet_redeem: the call starts with the read of
\* the user
find_user(op, user_id, amount_paisa) ==
    /\ amount_paisa > 0
    /\ tasks' = Append(tasks, found_user(Task(op, user_id, amount_paisa, "find"),
                                         db.users[user_id].wallet_balance_paisa))
    /\ UNCHANGED <<db, now, resp, automation_failures, system_settings_cache>>

\* debit_wallet, called by create_product_order after the order is stored
debit_find_user(t) ==
    /\ tasks[t].pc = "find"
    /\ tasks' = [tasks EXCEPT ![t] =
                    found_user(@, db.users[tasks[t].user_id].wallet_balance_paisa)]
    /\ UNCHANGED <<db, now, resp, automation_failures, system_settings_cache>>

\* await db.users.update_one({"id": user_id},
\*     {"$set": {"wallet_balance_paisa": new_balance}})
update_balance(t) ==
    /\ tasks[t].pc = "update"
    /\ LET k == tasks[t]
           new_balance == IF is_debit(k) THEN k.old_balance - moved(k)
                          ELSE k.old_balance + moved(k)
       IN db' = [db EXCEPT !.users[k.user_id].wallet_balance_paisa = new_balance]
    /\ tasks' = [tasks EXCEPT ![t].pc = "insert_tx"]
    /\ UNCHANGED <<now, resp, automation_failures, system_settings_cache>>

\* await db.wallet_transactions.insert_one({...}); a redeem's entry names
\* the order record stored next (ids are positions in db.orders, so it is
\* the position free at this moment)
insert_tx(t) ==
    /\ tasks[t].pc = "insert_tx"
    /\ LET k == tasks[t]
           signed == IF is_debit(k) THEN - moved(k) ELSE moved(k)
           type == CASE k.op = "create_product_order" -> "order_payment"
                     [] k.op = "credit_wallet" -> "overpayment_credit"
                     [] k.op = "admin_wallet_redeem" -> "debit"
           order_id == IF k.op = "create_product_order" THEN k.order_id
                       ELSE IF k.op = "credit_wallet" THEN NoneInt
                       ELSE Len(db.orders) + 1
       IN /\ db' = [db EXCEPT !.wallet_transactions = Append(@,
                      WalletTx(k.user_id, type, signed, order_id, k.old_balance,
                               k.old_balance + signed, NoneInt))]
          /\ tasks' = [tasks EXCEPT ![t].pc =
                 CASE k.op = "credit_wallet" -> "done"
                   [] k.op = "create_product_order" ->
                        IF k.status = "paid" THEN "enqueue" ELSE "done"
                   [] OTHER -> "insert_order"]
    /\ UNCHANGED <<now, resp, automation_failures, system_settings_cache>>

\* admin_wallet_redeem: await db.orders.insert_one(order_doc), the
\* wallet_load record in success
insert_admin_order(t) ==
    /\ tasks[t].pc = "insert_order"
    /\ tasks[t].op = "admin_wallet_redeem"
    /\ LET k == tasks[t]
           order_id == Len(db.orders) + 1
       IN /\ db' = [db EXCEPT !.orders = Append(@,
                      AdminOrderDoc("ADMIN_REDEEM", order_id, k.user_id,
                                    k.amount_paisa, - k.amount_paisa, 0, now))]
          /\ tasks' = [tasks EXCEPT ![t] = [@ EXCEPT !.pc = "done",
                                                     !.order_id = order_id]]
    /\ UNCHANGED <<now, resp, automation_failures, system_settings_cache>>

\* create_product_order: await add_to_queue(order_id) for an order fully
\* paid from the wallet
enqueue(t) ==
    /\ tasks[t].pc = "enqueue"
    /\ db' = add_to_queue(db, tasks[t].order_id)
    /\ tasks' = [tasks EXCEPT ![t].pc = "done"]
    /\ UNCHANGED <<now, resp, automation_failures, system_settings_cache>>

ConcMaxTasks == 3

NextConc ==
    \/ /\ Len(tasks) < ConcMaxTasks
       /\ \E op \in {"credit_wallet", "admin_wallet_redeem"} :
             find_user(op, "u1", 300)
    \/ /\ Len(tasks) < ConcMaxTasks
       /\ cpo_read_user("u1", 500)
    \/ \E t \in TaskIds : cpo_insert_order(t)
    \/ \E t \in TaskIds : debit_find_user(t)
    \/ \E t \in TaskIds : update_balance(t)
    \/ \E t \in TaskIds : insert_tx(t)
    \/ \E t \in TaskIds : insert_admin_order(t)
    \/ \E t \in TaskIds : enqueue(t)

SpecConc == Init /\ [][NextConc]_vars

\* ---------------------------------------------------------------------
\* Claims about the ledger under interleaving
\* ---------------------------------------------------------------------
RECURSIVE applied(_, _)
\* the sum of the signed amounts of the ledger mutations that completed
applied(ks, user_id) ==
    IF ks = << >> THEN 0
    ELSE LET k == Head(ks)
             amount == IF k.user_id = user_id /\ k.pc = "done"
                       THEN (IF is_debit(k) THEN - moved(k) ELSE moved(k))
                       ELSE 0
         IN amount + applied(Tail(ks), user_id)

quiescent == \A t \in TaskIds : tasks[t].pc \in {"done", "raised"}

debit_txs == { i \in 1..Len(db.wallet_transactions) :
                  db.wallet_transactions[i].type \in {"order_payment", "debit"} }

\* C4: a debit (debit_wallet, admin_wallet_redeem) whose amount exceeds the
\* balance it reads is rejected: the coroutine raises and goes no further,
\* so it writes no balance and no ledger entry; every debit recorded in the
\* ledger was covered by the balance it read.
C4_DebitRejected ==
    /\ \A t \in TaskIds :
          LET k == tasks[t]
          IN (is_debit(k) /\ k.old_balance # NoneInt /\ moved(k) > k.old_balance)
                => k.pc = "raised"
    /\ \A i \in debit_txs :
          LET tx == db.wallet_transactions[i]
          IN tx.balance_before_paisa + tx.amount_paisa >= 0
             /\ tx.balance_after_paisa = tx.balance_before_paisa + tx.amount_paisa

\* C4 witness: two orders computed their wallet share from the same balance;
\* the second debit_wallet call found the balance spent and was rejected
C4_Witness ==
    \E t \in TaskIds : /\ tasks[t].op = "create_product_order"
                       /\ tasks[t].pc = "raised"
                       /\ tasks[t].old_balance < tasks[t].wallet_used_paisa

\* C5: when every ledger mutation issued on a user has finished, the
\* balance reflects all of those that completed (none is lost).
C5_NoLostUpdate ==
    quiescent => \A u \in Users :
                    db.users[u].wallet_balance_paisa = applied(tasks, u)

\* =====================================================================
\* The ledger, handler by handler
\* =====================================================================
RECURSIVE tx_sum(_, _)
\* the sum of the signed amounts of a user's ledger entries
tx_sum(txs, user_id) ==
    IF txs = << >> THEN 0
    ELSE (IF Head(txs).user_id = user_id THEN Head(txs).amount_paisa ELSE 0)
         + tx_sum(Tail(txs), user_id)

LedMaxOrders == 2
LedMaxSms == 1
LedMaxTime == 3

\* a payment notification that names no sender digits: it is stored unused
\* and an admin links it to an order
LedgerText == RawText(700, Null, "R1", FALSE)

NextLedger ==
    \/ /\ Len(db.orders) < LedMaxOrders
       /\ \E u \in Users : create_product_order(u, 500)
    \/ /\ Len(db.orders) < LedMaxOrders
       /\ \E u \in Users : admin_wallet_recharge(u, 300)
    \/ /\ Len(db.orders) < LedMaxOrders
       /\ \E u \in Users : \E a \in {300, 600000} : admin_wallet_redeem(u, a)
    \/ /\ Len(db.sms_messages) < LedMaxSms
       /\ receive_sms(LedgerText)
    \/ \E p \in SmsIds : \E o \in OrderIds : link_payment_to_order(p, o)
    \/ update_settings([order_expiry_minutes |-> 1])
    \/ expire_old_orders
    \/ now < LedMaxTime /\ Tick

SpecLedger == Init /\ [][NextLedger]_vars

\* C1: for every user the balance equals the sum of the signed amounts of
\* the user's ledger entries, and every entry records
\* balance_after = balance_before + amount.
C1_LedgerConsistent ==
    /\ \A u \in Users :
          db.users[u].wallet_balance_paisa = tx_sum(db.wallet_transactions, u)
    /\ \A i \in 1..Len(db.wallet_transactions) :
          LET tx == db.wallet_transactions[i]
          IN /\ tx.balance_before_paisa # NoneInt
             /\ tx.balance_after_paisa # NoneInt
             /\ tx.balance_after_paisa = tx.balance_before_paisa + tx.amount_paisa

\* =====================================================================
\* Payment ingestion: orders that wait for a payment and the three
\* ingestion endpoints
\* =====================================================================
IngMaxDocs == 3
DupMaxDocs == 4

\* orders and notifications stored so far
docs == Len(db.orders) + Len(db.sms_messages)

\* the notification texts delivered: Rs 7 and Rs 16 from the sender ending
\* in 910
IngestTexts == { RawText(700, "910", "R1", FALSE), RawText(1600, "910", "R2", FALSE) }

\* one text, and the same text with surrounding blanks
RepeatedTexts == { RawText(700, "910", "R1", FALSE), RawText(700, "910", "R1", TRUE) }

\* the text was delivered before through a text endpoint (its record has
\* no received_at) or by the device (the bound on stored documents does
\* not stop a repeated delivery)
delivered(raw) ==
    \E i \in SmsIds : /\ strip(db.sms_messages[i].raw_message) = strip(raw)
                      /\ db.sms_messages[i].received_at = NoneInt
forwarded(raw) ==
    \E i \in SmsIds : /\ db.sms_messages[i].raw_message = raw
                      /\ db.sms_messages[i].received_at # NoneInt

\* the age in minutes of a notification the device forwards late
StaleAge == DEFAULT_SYSTEM_SETTINGS.payment_match_window_minutes + 1

\* raw-text and device-forwarder ingestion against orders of two prices
NextIngest ==
    \/ /\ docs < IngMaxDocs
       /\ \E p \in {400, 500} : create_product_order("u1", p)
    \/ \E o \in OrderIds : verify_payment(o, 500, "910")
    \/ \E o \in OrderIds : /\ db.orders[o].status = "manual_review"
                             /\ admin_update_order(o, "pending_payment")
    \/ \E raw \in IngestTexts :
          /\ docs < IngMaxDocs \/ delivered(raw)
          /\ receive_sms(raw)
    \/ \E raw \in IngestTexts :
          /\ docs < IngMaxDocs \/ forwarded(raw)
          /\ \E age \in {0, StaleAge} :
                sms_ingest(raw, DeviceFingerprint(raw), Null, now - age)
    \/ update_settings([auto_payment_check |-> FALSE])

SpecIngest == Init /\ [][NextIngest]_vars

\* the two text-ingesting endpoints and repeated deliveries
NextDup ==
    \/ /\ docs < DupMaxDocs
       /\ create_product_order("u1", 500)
    \/ \E o \in OrderIds : verify_payment(o, 500, "910")
    \/ \E o \in OrderIds : /\ db.orders[o].status = "manual_review"
                             /\ admin_update_order(o, "pending_payment")
    \/ \E raw \in RepeatedTexts :
          /\ docs < DupMaxDocs \/ delivered(raw)
          /\ receive_sms(raw)
    \/ \E raw \in RepeatedTexts :
          /\ docs < DupMaxDocs \/ delivered(raw)
          /\ admin_input_sms(raw)

SpecDup == Init /\ [][NextDup]_vars

text_ops == {"receive_sms", "admin_input_sms"}
ingest_ops == text_ops \cup {"sms_ingest"}

\* C2: a raw text that a text-ingesting endpoint (receive_sms,
\* admin_input_sms) stored before is rejected as a duplicate when it is
\* submitted again through either of them, and the second submission
\* changes nothing in the database: no notification record, no order
\* status, no wallet transaction.
C2_DuplicateTextRejected ==
    [][ (/\ resp'.op \in text_ops
         /\ \E i \in SmsIds : /\ db.sms_messages[i].raw_message = resp'.raw
                              /\ db.sms_messages[i].received_at = NoneInt)
        => (resp'.duplicate /\ db' = db) ]_vars

\* C2 witness: the text of a notification that was matched to an order has
\* been submitted again and answered as a duplicate
C2_Witness ==
    /\ resp.op \in text_ops /\ resp.duplicate
    /\ \E i \in SmsIds : /\ db.sms_messages[i].raw_message = resp.raw
                         /\ db.sms_messages[i].used
                         /\ db.sms_messages[i].matched_order_id # NoneInt

\* C6: whenever an ingestion response reports matched = true, the matched
\* order has left pending_payment and the notification is marked used
\* with that order as matched_order_id.
C6_MatchedMeansApplied ==
    (resp.op \in ingest_ops /\ resp.matched) =>
        /\ db.orders[resp.order_id].status # "pending_payment"
        /\ db.sms_messages[resp.sms_id].used
        /\ db.sms_messages[resp.sms_id].matched_order_id = resp.order_id

\* C8: when ingestion raises the suspicious_payment alert for the candidate
\* order it selected (ratio or ceiling exceeded), that order's status
\* becomes suspicious.
C8_OrderBecomesSuspicious ==
    [][ \A o \in OrderIds :
          (/\ resp'.op \in ingest_ops
           /\ Len(db'.system_alerts) = Len(db.system_alerts) + 1
           /\ db'.system_alerts[Len(db'.system_alerts)].type = "suspicious_payment"
           /\ db'.system_alerts[Len(db'.system_alerts)].entity_id = o)
          => db'.orders[o].status = "suspicious" ]_vars

\* the candidate set of the matcher for amount A and last digits D: the
\* orders the query returns
candidate_set(d, A, D) ==
    LET found == pending_orders(d, A, D)
    IN { found[i] : i \in 1..Len(found) }

\* the evidence of the notification is already on an order
evidence_known(d, rrn, fingerprint) ==
    \/ rrn # Null /\ \E j \in 1..Len(d.orders) : d.orders[j].payment_rrn = OrderRrn(rrn)
    \/ \E j \in 1..Len(d.orders) : d.orders[j].sms_fingerprint = fingerprint

\* o is the candidate with the smallest overpayment, the oldest of those
smallest_overpayment(d, C, o) ==
    /\ o \in C
    /\ \A c \in C :
          /\ d.orders[c].payment_required_paisa <= d.orders[o].payment_required_paisa
          /\ d.orders[c].payment_required_paisa = d.orders[o].payment_required_paisa
                => d.orders[o].created_at <= d.orders[c].created_at /\ o <= c

\* an ingestion step that stored a new notification
stored_new == /\ resp'.op \in ingest_ops
              /\ Len(db'.sms_messages) = Len(db.sms_messages) + 1

PayMaxDocs == 3

PayTexts == { RawText(700, "910", "R1", FALSE), RawText(1200, "910", "R1", FALSE),
              RawText(1600, "910", "R2", FALSE) }

NextPay ==
    \/ /\ docs < PayMaxDocs
       /\ \E p \in {500, 700} : create_product_order("u1", p)
    \/ /\ docs < PayMaxDocs
       /\ create_wallet_load_order("u1", 1000)
    \/ \E o \in OrderIds : verify_payment(o, 700, "910")
    \/ \E o \in OrderIds : /\ db.orders[o].status = "manual_review"
                             /\ admin_update_order(o, "pending_payment")
    \/ \E raw \in PayTexts :
          /\ docs < PayMaxDocs \/ delivered(raw)
          /\ receive_sms(raw)
    \/ \E p \in SmsIds : \E o \in OrderIds : link_payment_to_order(p, o)
    \/ update_settings([max_overpayment_ratio |-> 5])

SpecPay == Init /\ [][NextPay]_vars

accept_ops == {"receive_sms", "admin_input_sms", "verify_payment",
               "link_payment_to_order", "admin_manual_match"}

\* a step in which process_payment decided on the payment resp'.amount for
\* the order resp'.order_id
decided == /\ resp'.op \in accept_ops
           /\ resp'.order_id # NoneInt /\ resp'.sms_id # NoneInt
           /\ resp'.status \in {"paid", "suspicious"}

\* the ledger entries a step appended
new_txs == SubSeq(db'.wallet_transactions, Len(db.wallet_transactions) + 1,
                  Len(db'.wallet_transactions))

\* the entries of one type among them
of_type(txs, type) == SelectSeq(txs, LAMBDA tx : tx.type = type)

\* C7: a payment P decided for an order requiring R, with
\* 0 < P - R <= the configured ceiling and P <= R * the configured
\* max_overpayment_ratio, is accepted and exactly one overpayment_credit of
\* P - R is written for the payer; with P = R it is accepted and no
\* overpayment_credit is written.
C7_SurplusCredited ==
    [][ decided =>
        LET order == db.orders[resp'.order_id]
            P == resp'.amount
            R == order.payment_required_paisa
            settings == db.system_settings
            credits == of_type(new_txs, "overpayment_credit")
        IN /\ (/\ 0 < P - R /\ P - R <= settings.max_wallet_credit
               /\ P <= R * settings.max_overpayment_ratio)
              => /\ resp'.status = "paid"
                 /\ Len(credits) = 1
                 /\ credits[1].amount_paisa = P - R
                 /\ credits[1].user_id = order.user_id
           /\ P = R => (resp'.status = "paid" /\ credits = << >>) ]_vars

\* C9: a step that accepts a payment for a wallet-load order writes exactly
\* one wallet_load credit of the order's load amount for the payer, besides
\* the credit of the surplus if there is one; a step that accepts a payment
\* for a product order writes nothing but the credit of the surplus.  The
\* payer's balance grows by exactly those amounts.
C9_LoadCreditedOnce ==
    [][ (decided /\ resp'.status = "paid") =>
        LET order == db.orders[resp'.order_id]
            surplus == Max(0, resp'.amount - order.payment_required_paisa)
            loads == of_type(new_txs, "wallet_load")
            credits == of_type(new_txs, "overpayment_credit")
            load == IF order.order_type = "wallet_load" THEN order.load_amount_paisa
                    ELSE 0
        IN /\ Len(new_txs) = Len(loads) + Len(credits)
           /\ Len(credits) = (IF surplus > 0 THEN 1 ELSE 0)
           /\ \A i \in 1..Len(credits) : credits[i].amount_paisa = surplus
           /\ Len(loads) = (IF order.order_type = "wallet_load" THEN 1 ELSE 0)
           /\ \A i \in 1..Len(loads) : /\ loads[i].amount_paisa = order.load_amount_paisa
                                       /\ loads[i].user_id = order.user_id
           /\ db'.users[order.user_id].wallet_balance_paisa =
                 db.users[order.user_id].wallet_balance_paisa + load + surplus ]_vars

\* C9 witness: Rs 12 were accepted for a wallet load of Rs 10; the payer
\* holds the load and the surplus
C9_Witness ==
    /\ resp.op \in accept_ops /\ resp.status = "paid" /\ resp.amount = 1200
    /\ db.orders[resp.order_id].order_type = "wallet_load"
    /\ db.orders[resp.order_id].status = "success"
    /\ db.users["u1"].wallet_balance_paisa = 1200
    /\ Len(db.wallet_transactions) = 2

\* =====================================================================
\* Two notifications of one bank transfer (same RRN, different text) and
\* every path that attaches evidence to an order
\* =====================================================================
LinkMaxDocs == 4

LinkTexts == { RawText(700, "910", "R1", FALSE), RawText(1200, "910", "R1", FALSE) }

NextLink ==
    \/ /\ docs < LinkMaxDocs
       /\ create_product_order("u1", 500)
    \/ \E o \in OrderIds : verify_payment(o, 700, "910")
    \/ \E o \in OrderIds : /\ db.orders[o].status = "manual_review"
                             /\ admin_update_order(o, "pending_payment")
    \/ \E raw \in LinkTexts :
          /\ docs < LinkMaxDocs \/ delivered(raw)
          /\ receive_sms(raw)
    \/ \E raw \in LinkTexts :
          /\ docs < LinkMaxDocs \/ delivered(raw)
          /\ admin_input_sms(raw)
    \/ \E p \in SmsIds : \E o \in OrderIds : link_payment_to_order(p, o)
    \/ \E p \in SmsIds : \E o \in OrderIds : admin_manual_match(p, o)

SpecLink == Init /\ [][NextLink]_vars

has_rrn(order) == order.payment_rrn \notin {<<Missing>>, <<Null>>}
has_fingerprint(order) == order.sms_fingerprint.kind # Missing

\* C3: no two distinct orders carry the same non-null payment_rrn, and no
\* two distinct orders carry the same non-null sms_fingerprint.
C3_EvidenceUnique ==
    \A i, j \in OrderIds :
        i # j =>
          /\ has_rrn(db.orders[i]) => db.orders[i].payment_rrn # db.orders[j].payment_rrn
          /\ has_fingerprint(db.orders[i]) =>
                db.orders[i].sms_fingerprint # db.orders[j].sms_fingerprint

\* C3 witness: staff tried to link an unused notification to an order while
\* another order already carried its RRN; the update was refused
C3_Witness ==
    /\ resp.op \in {"link_payment_to_order", "admin_manual_match"}
    /\ resp.status = "raised"
    /\ ~ has_rrn(db.orders[resp.order_id])
    /\ \E j \in OrderIds :
          /\ j # resp.order_id
          /\ db.orders[j].payment_rrn = OrderRrn(db.sms_messages[resp.sms_id].rrn)
          /\ has_rrn(db.orders[j])

\* =====================================================================
\* Fulfillment: enqueue, dispatch, retry policy, circuit breaker and the
\* maintenance jobs
\* =====================================================================
\* record_automation_failure keeps the failures of the last 30 minutes
FAILURE_RETENTION_MINUTES == 30
\* process_automation_order: "retry_count < 3"
MAX_RETRIES == 3
\* cleanup_processing_orders: timedelta(minutes=10)
STUCK_THRESHOLD_MINUTES == 10
\* flag_suspicious_sms: timedelta(hours=1)
SUSPICIOUS_SMS_MINUTES == 60
\* admin_process_all_queued: to_list(50)
PROCESS_ALL_LIMIT == 50
\* lifespan: cleanup_processing_orders runs every 5 minutes
CLEANUP_INTERVAL_MINUTES == 5

\* what run_automation_for_order can answer: (True, "success"),
\* (False, "invalid_uid"), (False, any other status), or an exception
\* (the browser does not start)
Verdicts == {"success", "invalid_uid", "purchase_failed", "raised"}

\* record_automation_failure(), at time t
record_automation_failure(fs, t) ==
    LET kept(f) == f > t - FAILURE_RETENTION_MINUTES
    IN SelectSeq(Append(fs, t), kept)

\* check_circuit_breaker(), at time t with the failure list fs; the settings
\* cache is refreshed by every write of the settings, so it equals the
\* settings document
check_circuit_breaker(d, fs, t) ==
    LET settings == d.system_settings
        threshold == settings.automation_fail_threshold
        window_start == t - settings.automation_fail_window_minutes
        recent(f) == f > window_start
        recent_failures == SelectSeq(fs, recent)
    IN IF Len(recent_failures) >= threshold /\ settings.auto_topup
       THEN [d EXCEPT !.system_settings.auto_topup = FALSE,
                      !.system_alerts = Append(@,
                          Alert("circuit_breaker", "critical", NoneInt))]
       ELSE d

\* a process_automation_order background task
AutomationTask(order_id) ==
    [ op |-> "process_automation_order", order_id |-> order_id,
      pc |-> "find_order", retry_count |-> NoneInt ]

\* a background task that returned
Remove(seq, t) ==
    [i \in 1..(Len(seq) - 1) |-> IF i < t THEN seq[i] ELSE seq[i + 1]]

\* no order_type check
is_any_order(order) == TRUE

\* order.get("order_type") == "product_topup"
is_product_order(order) == order.order_type = "product_topup"

\* POST /admin/orders/{order_id}/process
admin_process_order(order_id) ==
    /\ order_id \in OrderIds
    /\ LET order == db.orders[order_id]
           rejected == \/ ~ is_product_order(order)
                       \/ order.status \notin {"queued", "paid"}
       IN /\ tasks' = IF rejected THEN tasks
                      ELSE Append(tasks, AutomationTask(order_id))
          /\ resp' = [NoResp EXCEPT !.op = "admin_process_order",
                                    !.order_id = order_id,
                                    !.http = IF rejected THEN 400 ELSE 200]
    /\ UNCHANGED <<db, now, automation_failures, system_settings_cache>>

\* POST /admin/automation/process-all
admin_process_all_queued ==
    /\ LET queued(i) == /\ is_product_order(db.orders[i])
                        /\ db.orders[i].status = "queued"
           found == SelectSeq(Indices(db.orders), queued)
           orders == SubSeq(found, 1, IF Len(found) < PROCESS_ALL_LIMIT
                                      THEN Len(found) ELSE PROCESS_ALL_LIMIT)
       IN /\ tasks' = tasks \o [i \in 1..Len(orders) |-> AutomationTask(orders[i])]
          /\ resp' = [NoResp EXCEPT !.op = "admin_process_all_queued",
                                    !.amount = Len(orders)]
    /\ UNCHANGED <<db, now, automation_failures, system_settings_cache>>

\* process_automation_order without the status check
pao_find_order_unchecked(t) ==
    /\ t \in TaskIds
    /\ tasks[t].op = "process_automation_order"
    /\ tasks[t].pc = "find_order"
    /\ LET order == db.orders[tasks[t].order_id]
       IN /\ tasks' = [tasks EXCEPT ![t].pc = "set_processing",
                                    ![t].retry_count = order.retry_count]
          /\ resp' = [NoResp EXCEPT !.op = "process_automation_order",
                                    !.order_id = order.id, !.status = "found"]
    /\ UNCHANGED <<db, now, automation_failures, system_settings_cache>>

\* process_automation_order: db.orders.find_one and the status check
pao_find_order(t) ==
    /\ t \in TaskIds
    /\ tasks[t].op = "process_automation_order"
    /\ tasks[t].pc = "find_order"
    /\ LET order == db.orders[tasks[t].order_id]
       IN /\ tasks' = IF order.status # "queued" THEN Remove(tasks, t)
                      ELSE [tasks EXCEPT ![t].pc = "set_processing",
                                         ![t].retry_count = order.retry_count]
          /\ resp' = [NoResp EXCEPT !.op = "process_automation_order",
                                    !.order_id = order.id,
                                    !.status = IF order.status # "queued"
                                               THEN "skipped" ELSE "found"]
    /\ UNCHANGED <<db, now, automation_failures, system_settings_cache>>

\* process_automation_order: the update to processing and the lookup of the
\* active Garena account
pao_set_processing(t) ==
    /\ t \in TaskIds
    /\ tasks[t].op = "process_automation_order"
    /\ tasks[t].pc = "set_processing"
    /\ LET order_id == tasks[t].order_id
           d1 == [db EXCEPT !.orders[order_id] =
                    [@ EXCEPT !.status = "processing",
                              !.automation_state = "started",
                              !.processing_started_at = now]]
           garena_acc == \E a \in 1..Len(db.garena_accounts) :
                             db.garena_accounts[a].active
       IN IF ~ garena_acc
          THEN /\ db' = [d1 EXCEPT !.orders[order_id] =
                            [@ EXCEPT !.status = "manual_review",
                                      !.automation_state = "no_garena_account",
                                      !.suspicious_reason = "no_garena_account"]]
               /\ tasks' = Remove(tasks, t)
               /\ resp' = [NoResp EXCEPT !.op = "process_automation_order",
                                         !.order_id = order_id,
                                         !.status = "no_garena_account"]
          ELSE /\ db' = d1
               /\ tasks' = [tasks EXCEPT ![t].pc = "run_automation"]
               /\ resp' = [NoResp EXCEPT !.op = "process_automation_order",
                                         !.order_id = order_id,
                                         !.status = "processing"]
    /\ UNCHANGED <<now, automation_failures, system_settings_cache>>

\* a retry policy that always retries
may_retry_always(retry_count) == TRUE

\* "elif retry_count < 3"
may_retry(retry_count) == retry_count < MAX_RETRIES

\* the order after a failure verdict (success = False): the retry policy.
\* retry_count is computed from the order as the task read it.
retry_policy(o, order, status_msg) ==
    LET retry_count == order.retry_count + 1
    IN IF status_msg = "invalid_uid"
       THEN [o EXCEPT !.status = "invalid_uid",
                      !.automation_state = status_msg,
                      !.suspicious_reason = "invalid_uid",
                      !.retry_count = retry_count]
       ELSE IF may_retry(retry_count)
       THEN [o EXCEPT !.status = "queued",
                      !.automation_state = "retry",
                      !.retry_count = retry_count]
       ELSE [o EXCEPT !.status = "manual_review",
                      !.automation_state = status_msg,
                      !.suspicious_reason = "automation_failed",
                      !.retry_count = retry_count]

\* process_automation_order: run_automation_for_order returns the verdict
\* (or raises) and the task writes the outcome
pao_verdict(t, verdict) ==
    /\ t \in TaskIds
    /\ tasks[t].op = "process_automation_order"
    /\ tasks[t].pc = "run_automation"
    /\ LET order_id == tasks[t].order_id
           fs == record_automation_failure(automation_failures, now)
       IN IF verdict = "success"
          THEN /\ db' = [db EXCEPT !.orders[order_id] =
                            [@ EXCEPT !.status = "success",
                                      !.automation_state = "completed"]]
               /\ automation_failures' = automation_failures
          ELSE IF verdict = "raised"
          THEN /\ db' = [check_circuit_breaker(db, fs, now)
                            EXCEPT !.orders[order_id] =
                            [@ EXCEPT !.status = "manual_review",
                                      !.automation_state = "error",
                                      !.suspicious_reason = "automation_exception"]]
               /\ automation_failures' = fs
          ELSE /\ db' = check_circuit_breaker(
                            [db EXCEPT !.orders[order_id] =
                                retry_policy(@, tasks[t], verdict)], fs, now)
               /\ automation_failures' = fs
    /\ tasks' = Remove(tasks, t)
    /\ resp' = [NoResp EXCEPT !.op = "process_automation_order",
                              !.order_id = tasks[t].order_id, !.status = verdict]
    /\ system_settings_cache' = IF db'.system_settings # db.system_settings
                                THEN db'.system_settings
                                ELSE system_settings_cache
    /\ UNCHANGED now

\* POST /admin/orders/{order_id}/retry
admin_retry_order(order_id) ==
    /\ order_id \in OrderIds
    /\ LET order == db.orders[order_id]
       IN IF ~ is_product_order(order)
          THEN /\ db' = db
               /\ resp' = [NoResp EXCEPT !.op = "admin_retry_order",
                                         !.order_id = order_id, !.http = 400]
          ELSE /\ db' = [db EXCEPT !.orders[order_id] =
                            [@ EXCEPT !.status = "queued",
                                      !.automation_state = Null,
                                      !.retry_count = order.retry_count + 1]]
               /\ resp' = [NoResp EXCEPT !.op = "admin_retry_order",
                                         !.order_id = order_id]
    /\ UNCHANGED <<now, tasks, automation_failures, system_settings_cache>>

\* PUT /orders/{order_id}/uid, called by the owner with a well-formed uid
update_order_uid(order_id) ==
    /\ order_id \in OrderIds
    /\ LET order == db.orders[order_id]
       IN IF order.status \notin {"invalid_uid", "pending_payment"}
          THEN /\ db' = db
               /\ resp' = [NoResp EXCEPT !.op = "update_order_uid",
                                         !.order_id = order_id, !.http = 400]
          ELSE /\ db' = [db EXCEPT !.orders[order_id].status = "pending_payment"]
               /\ resp' = [NoResp EXCEPT !.op = "update_order_uid",
                                         !.order_id = order_id,
                                         !.status = "pending_payment"]
    /\ UNCHANGED <<now, tasks, automation_failures, system_settings_cache>>

\* a filter that selects every order in processing, whatever its age
is_processing(order, stuck_threshold) == order.status = "processing"

\* a filter that selects on the age alone, whatever the status
is_started_long_ago(order, stuck_threshold) ==
    /\ order.processing_started_at # NoneInt
    /\ order.processing_started_at < stuck_threshold

\* {"status": "processing", "processing_started_at": {"$lt": stuck_threshold}}
is_stuck(order, stuck_threshold) ==
    /\ order.status = "processing"
    /\ order.processing_started_at # NoneInt
    /\ order.processing_started_at < stuck_threshold

\* the job cleanup_processing_orders
cleanup_processing_orders ==
    /\ LET stuck_threshold == now - STUCK_THRESHOLD_MINUTES
           stuck(i) == is_stuck(db.orders[i], stuck_threshold)
       IN /\ db' = [db EXCEPT !.orders =
                     [i \in OrderIds |->
                        IF stuck(i)
                        THEN [db.orders[i] EXCEPT !.status = "queued",
                                                  !.automation_state = "reset_from_stuck",
                                                  !.retry_count = @ + 1]
                        ELSE db.orders[i]]]
          /\ resp' = [NoResp EXCEPT !.op = "cleanup_processing_orders",
                                    !.amount = Cardinality({i \in OrderIds : stuck(i)})]
    /\ UNCHANGED <<now, tasks, automation_failures, system_settings_cache>>

\* the job flag_suspicious_sms ({"suspicious": False} does not select a
\* document that has no suspicious field)
flag_suspicious_sms ==
    /\ LET suspicious_threshold == now - SUSPICIOUS_SMS_MINUTES
           stale(i) == /\ db.sms_messages[i].used = FALSE
                       /\ db.sms_messages[i].suspicious = "false"
                       /\ db.sms_messages[i].parsed_at < suspicious_threshold
       IN /\ db' = [db EXCEPT !.sms_messages =
                     [i \in SmsIds |->
                        IF stale(i)
                        THEN [db.sms_messages[i] EXCEPT
                                 !.suspicious = "true",
                                 !.suspicious_reason = "Unmatched for over 1 hour"]
                        ELSE db.sms_messages[i]]]
          /\ resp' = [NoResp EXCEPT !.op = "flag_suspicious_sms",
                                    !.amount = Cardinality({i \in SmsIds : stale(i)})]
    /\ UNCHANGED <<now, tasks, automation_failures, system_settings_cache>>

\* POST /staff/payments/{payment_id}/mark-invalid
mark_payment_invalid(payment_id) ==
    /\ payment_id \in SmsIds
    /\ db' = [db EXCEPT !.sms_messages[payment_id] =
                [@ EXCEPT !.status = "invalid", !.used = TRUE]]
    /\ resp' = [NoResp EXCEPT !.op = "mark_payment_invalid", !.sms_id = payment_id]
    /\ UNCHANGED <<now, tasks, automation_failures, system_settings_cache>>

\* time passes: the scheduler wakes a job after its interval
Wait(minutes) ==
    /\ now' = now + minutes
    /\ resp' = [NoResp EXCEPT !.op = "Tick"]
    /\ UNCHANGED <<db, tasks, automation_failures, system_settings_cache>>

\* ---------------------------------------------------------------------
\* Specification: dispatch and retry of paid product orders
\* ---------------------------------------------------------------------
RetryMaxOrders == 2
RetryMaxTasks == 1
RetryMaxCount == 3
RetryMaxFailures == 3

\* the background tasks in flight for an order
dispatches(o) ==
    {t \in TaskIds : tasks[t].op = "process_automation_order" /\ tasks[t].order_id = o}

\* the orders the administrator asks to retry: those that automation gave
\* up on, and wallet-load records (which the endpoint refuses)
retried(o) ==
    \/ db.orders[o].status \in {"manual_review", "invalid_uid"}
    \/ db.orders[o].order_type # "product_topup"

NextRetry ==
    \/ update_settings([auto_topup |-> TRUE])
    \/ /\ Len(db.orders) < RetryMaxOrders
       /\ admin_wallet_recharge("u1", 500)
    \/ /\ Len(db.orders) < RetryMaxOrders
       /\ create_product_order("u1", 500)
    \/ /\ Len(tasks) < RetryMaxTasks
       /\ \E o \in OrderIds : admin_process_order(o)
    \/ /\ Len(tasks) < RetryMaxTasks
       /\ admin_process_all_queued
    \/ \E t \in TaskIds : pao_find_order(t)
    \/ \E t \in TaskIds : pao_set_processing(t)
    \/ /\ Len(automation_failures) < RetryMaxFailures
       /\ \E t \in TaskIds : \E verdict \in Verdicts : pao_verdict(t, verdict)
    \/ \E o \in OrderIds : /\ db.orders[o].retry_count < RetryMaxCount
                           /\ retried(o)
                           /\ admin_retry_order(o)
    \/ \E o \in OrderIds : update_order_uid(o)

SpecRetry == Init /\ [][NextRetry]_vars

\* the step is the verdict "verdict" of the only dispatch of order o, and
\* nothing touched the order since the dispatch put it in processing
dispatch_ends(o, verdict) ==
    /\ resp'.op = "process_automation_order"
    /\ resp'.status = verdict
    /\ resp'.order_id = o
    /\ \E t \in TaskIds : /\ dispatches(o) = {t}
                          /\ tasks[t].pc = "run_automation"
                          /\ tasks[t].retry_count = db.orders[o].retry_count
    /\ db.orders[o].status = "processing"

\* operations by which an administrator re-opens an order by hand
manual_ops == {"admin_retry_order", "admin_update_order"}

BrkMaxOrders == 2
BrkMaxTasks == 1
BrkMaxCount == 3
BrkMaxTime == 30

\* a threshold N and two windows W: the default one and one longer than the
\* time record_automation_failure keeps a failure
BreakerSettings ==
    { [auto_topup |-> TRUE],
      [automation_fail_threshold |-> 2],
      [automation_fail_window_minutes |-> FAILURE_RETENTION_MINUTES + 1] }

NextBreaker ==
    \/ \E updates \in BreakerSettings : update_settings(updates)
    \/ /\ Len(db.orders) < BrkMaxOrders
       /\ admin_wallet_recharge("u1", 500)
    \/ /\ Len(db.orders) < BrkMaxOrders
       /\ create_product_order("u1", 500)
    \/ /\ Len(tasks) < BrkMaxTasks
       /\ \E o \in OrderIds : admin_process_order(o)
    \/ \E t \in TaskIds : pao_find_order(t)
    \/ \E t \in TaskIds : pao_set_processing(t)
    \/ \E t \in TaskIds : \E verdict \in Verdicts : pao_verdict(t, verdict)
    \/ \E o \in OrderIds : /\ db.orders[o].retry_count < BrkMaxCount
                           /\ retried(o)
                           /\ admin_retry_order(o)
    \/ /\ now < BrkMaxTime
       /\ Wait(FAILURE_RETENTION_MINUTES)

SpecBreaker == Init /\ [][NextBreaker]_vars

\* the step records a fulfillment failure
failure_recorded ==
    /\ resp'.op = "process_automation_order"
    /\ resp'.status \in Verdicts \ {"success"}

\* the failures recorded so far that lie within the configured window W of
\* the present moment
failures_within_window ==
    {i \in 1..Len(automation_failures) :
        automation_failures[i] >
            now - db.system_settings.automation_fail_window_minutes}

breaker_alerts(d) ==
    {i \in 1..Len(d.system_alerts) : d.system_alerts[i].type = "circuit_breaker"}

\* C12: when a failure is recorded while auto-fulfillment is on, and with it
\* the failures within the window W number N or more, the flag goes off and
\* exactly one critical circuit_breaker alert is added; when they number
\* fewer than N (W within the time failures are kept) the flag stays on and
\* no alert is added; a failure recorded while the flag is off adds no alert.
C12_BreakerTripsAtThreshold ==
    [][ failure_recorded =>
          LET N == db.system_settings.automation_fail_threshold
              W == db.system_settings.automation_fail_window_minutes
              count == Cardinality(failures_within_window) + 1
              added == Cardinality(breaker_alerts(db')) - Cardinality(breaker_alerts(db))
          IN /\ (db.system_settings.auto_topup /\ count >= N)
                    => /\ ~ db'.system_settings.auto_topup
                       /\ added = 1
                       /\ db'.system_alerts[Len(db'.system_alerts)].severity = "critical"
             /\ (db.system_settings.auto_topup /\ count < N
                    /\ W <= FAILURE_RETENTION_MINUTES)
                    => /\ db'.system_settings.auto_topup
                       /\ added = 0
             /\ ~ db.system_settings.auto_topup
                    => /\ ~ db'.system_settings.auto_topup
                       /\ added = 0 ]_vars

\* ---------------------------------------------------------------------
\* Specification: runs of the expire-stale-orders job
\* ---------------------------------------------------------------------
ExpMaxOrders == 3
ExpMaxTime == 3

NextExpire ==
    \/ /\ Len(db.orders) < ExpMaxOrders
       /\ admin_wallet_recharge("u1", 300)
    \/ /\ Len(db.orders) < ExpMaxOrders
       /\ \E u \in Users : create_product_order(u, 500)
    \/ update_settings([order_expiry_minutes |-> 1])
    \/ expire_old_orders
    \/ now < ExpMaxTime /\ Tick

SpecExpire == Init /\ [][NextExpire]_vars

\* the refund transactions written for an order
refunds(o) ==
    {i \in 1..Len(db.wallet_transactions) :
        /\ db.wallet_transactions[i].type = "refund"
        /\ db.wallet_transactions[i].reference_id = o}

\* C13: every expired order that had used the wallet has exactly one refund
\* transaction, of amount wallet_used, and the owner's balance moved with the
\* ledger; an expired order that used no wallet has no refund transaction.
C13_RefundedExactlyOnce ==
    /\ \A o \in OrderIds :
          db.orders[o].status = "expired"
            => IF db.orders[o].wallet_used_paisa > 0
               THEN /\ Cardinality(refunds(o)) = 1
                    /\ \A i \in refunds(o) :
                          db.wallet_transactions[i].amount_paisa
                              = db.orders[o].wallet_used_paisa
               ELSE refunds(o) = {}
    /\ \A u \in Users :
          db.users[u].wallet_balance_paisa = tx_sum(db.wallet_transactions, u)

\* ---------------------------------------------------------------------
\* Specification: orders abandoned in processing and the un-stick job
\* ---------------------------------------------------------------------
StuckMaxOrders == 3
StuckMaxTime == 15

NextStuck ==
    \/ update_settings([auto_topup |-> TRUE])
    \/ /\ Len(db.orders) < StuckMaxOrders
       /\ admin_wallet_recharge("u1", 1000)
    \/ /\ Len(db.orders) < StuckMaxOrders
       /\ create_product_order("u1", 500)
    \/ \E o \in OrderIds : /\ dispatches(o) = {}
                           /\ admin_process_order(o)
    \/ \E t \in TaskIds : pao_find_order(t)
    \/ \E t \in TaskIds : pao_set_processing(t)
    \/ \E t \in TaskIds : pao_verdict(t, "success")
    \/ cleanup_processing_orders
    \/ /\ now < StuckMaxTime
       /\ Wait(CLEANUP_INTERVAL_MINUTES)

SpecStuck == Init /\ [][NextStuck]_vars

\* the order has been in processing for longer than the stuck threshold
processing_too_long(o) ==
    /\ db.orders[o].status = "processing"
    /\ now - db.orders[o].processing_started_at > STUCK_THRESHOLD_MINUTES

TermMaxOrders == 1
TermMaxSms == 1
TermMaxTime == 2
TermMaxCount == 1

TermText == RawText(500, "910", "R1", FALSE)

TerminalSettings == {[auto_topup |-> TRUE], [order_expiry_minutes |-> 1]}

NextTerminal ==
    \/ \E updates \in TerminalSettings : update_settings(updates)
    \/ /\ Len(db.orders) < TermMaxOrders
       /\ create_product_order("u1", 500)
    \/ /\ Len(db.sms_messages) < TermMaxSms
       /\ receive_sms(TermText)
    \/ \E o \in OrderIds : verify_payment(o, 500, "910")
    \/ \E p \in SmsIds : \E o \in OrderIds : link_payment_to_order(p, o)
    \/ \E o \in OrderIds : /\ dispatches(o) = {}
                           /\ admin_process_order(o)
    \/ \E t \in TaskIds : pao_find_order(t)
    \/ \E t \in TaskIds : pao_set_processing(t)
    \/ \E t \in TaskIds : \E verdict \in Verdicts : pao_verdict(t, verdict)
    \/ \E o \in OrderIds : /\ db.orders[o].retry_count < TermMaxCount
                           /\ admin_retry_order(o)
    \/ expire_old_orders
    \/ cleanup_processing_orders
    \/ now < TermMaxTime /\ Tick

SpecTerminal == Init /\ [][NextTerminal]_vars

TerminalStatuses == {"success", "expired", "refunded"}

\* C15: an order in a terminal status (success, expired, refunded) keeps
\* that status in every later step, and no order is ever deleted.
C15_TerminalIsFinal ==
    [][ /\ Len(db'.orders) >= Len(db.orders)
        /\ \A o \in OrderIds :
              db.orders[o].status \in TerminalStatuses
                => db'.orders[o].status = db.orders[o].status ]_vars

\* ---------------------------------------------------------------------
\* Specification: admission of notifications that share a reference number
\* ---------------------------------------------------------------------
AdmitMaxDocs == 3

\* two different texts that carry the same reference number
AdmitTexts == {RawText(700, "910", "R1", FALSE), RawText(1200, "910", "R1", FALSE)}

NextAdmit ==
    \/ /\ docs < AdmitMaxDocs
       /\ create_product_order("u1", 1000)
    \/ \E o \in OrderIds : verify_payment(o, 1200, "910")
    \/ \E o \in OrderIds : /\ db.orders[o].status = "manual_review"
                             /\ admin_update_order(o, "pending_payment")
    \/ \E raw \in AdmitTexts :
          /\ docs < AdmitMaxDocs \/ delivered(raw)
          /\ receive_sms(raw)
    \/ \E raw \in AdmitTexts :
          /\ docs < AdmitMaxDocs \/ delivered(raw)
          /\ admin_input_sms(raw)
    \/ \E raw \in AdmitTexts : \E request_rrn \in {Null, parse_sms_message(raw).rrn} :
          /\ docs < AdmitMaxDocs \/ forwarded(raw)
          /\ sms_ingest(raw, DeviceFingerprint(raw), request_rrn, now)

SpecAdmit == Init /\ [][NextAdmit]_vars

\* the reference number is already attached to an order or to a stored
\* notification
rrn_known(rrn) ==
    /\ rrn # Null
    /\ \/ \E o \in OrderIds : db.orders[o].payment_rrn = OrderRrn(rrn)
       \/ \E i \in SmsIds : db.sms_messages[i].rrn = rrn

\* C16: when a notification arrives, by any of the three ingestion paths,
\* with a reference number already attached to an order or to a stored
\* notification, it is rejected before any order, balance or ledger entry
\* changes.
C16_NoFinancialEffect ==
    [][ ( /\ resp'.op \in ingest_ops
          /\ rrn_known(parse_sms_message(resp'.raw).rrn) )
          => /\ db'.orders = db.orders
             /\ db'.users = db.users
             /\ db'.wallet_transactions = db.wallet_transactions ]_vars

\* ---------------------------------------------------------------------
\* Specification: the life of a payment notification
\* ---------------------------------------------------------------------
UsedMaxDocs == 3
UsedMaxTime == 61

UsedTexts == {RawText(500, "910", "R1", FALSE), RawText(700, "910", "R2", FALSE)}

NextUsed ==
    \/ /\ docs < UsedMaxDocs
       /\ create_product_order("u1", 500)
    \/ \E raw \in UsedTexts :
          /\ docs < UsedMaxDocs \/ delivered(raw)
          /\ receive_sms(raw)
    \/ \E o \in OrderIds : verify_payment(o, 500, "910")
    \/ \E p \in SmsIds : \E o \in OrderIds : link_payment_to_order(p, o)
    \/ \E p \in SmsIds : \E o \in OrderIds : admin_manual_match(p, o)
    \/ \E p \in SmsIds : mark_payment_invalid(p)
    \/ flag_suspicious_sms
    \/ /\ now < UsedMaxTime
       /\ Wait(SUSPICIOUS_SMS_MINUTES + 1)

SpecUsed == Init /\ [][NextUsed]_vars

\* C17: a payment notification with used = true is never changed again.
C17_UsedIsImmutable ==
    [][ \A i \in SmsIds :
          db.sms_messages[i].used
            => db'.sms_messages[i] = db.sms_messages[i] ]_vars

\* ---------------------------------------------------------------------
\* Routing of paid orders
\* ---------------------------------------------------------------------
QueueMaxOrders == 3

QueueTexts == {RawText(1000, "910", "R1", FALSE), RawText(1000, "910", "R2", FALSE)}

NextQueue ==
    \/ \E b \in BOOLEAN : update_settings([auto_topup |-> b])
    \/ /\ Len(db.orders) < QueueMaxOrders /\ create_product_order("u1", 500)
    \/ /\ Len(db.orders) < QueueMaxOrders /\ create_wallet_load_order("u1", 1000)
    \/ \E raw \in QueueTexts : ~ delivered(raw) /\ receive_sms(raw)
    \/ \E o \in OrderIds : /\ db.orders[o].status = "pending_payment"
                             /\ verify_payment(o, 1000, "910")
    \/ \E o \in OrderIds : /\ tasks = <<>> /\ db.orders[o].status = "queued"
                             /\ admin_process_order(o)
    \/ \E t \in TaskIds : pao_find_order(t)
    \/ \E t \in TaskIds : pao_set_processing(t)
    \/ \E t \in TaskIds : pao_verdict(t, "success")

SpecQueue == Init /\ [][NextQueue]_vars

\* the order o becomes paid in this step: a payment is accepted for it, or
\* it is created fully covered by the wallet
becomes_paid(o) ==
    /\ resp' # resp
    /\ resp'.op \in accept_ops \cup {"create_product_order"}
    /\ resp'.http = 200
    /\ resp'.status = "paid"
    /\ resp'.order_id = o

routed_status(d, o) ==
    IF d.orders[o].order_type # "product_topup" THEN "success"
    ELSE IF ~ d.system_settings.auto_topup THEN "manual_pending"
    ELSE "queued"

\* C18: an order that has just become paid ends the step in exactly one
\* of three statuses: success when it is not a product order,
\* manual_pending when it is a product order and auto_topup is off, queued
\* when it is a product order and auto_topup is on; no automation task is
\* started by the step.
C18_PaidOrderIsRouted ==
    [][\A o \in 1..Len(db'.orders) :
          becomes_paid(o) =>
            /\ db'.orders[o].status = routed_status(db', o)
            /\ db'.system_settings = db.system_settings
            /\ tasks' = tasks]_vars

C18_Witness ==
    /\ resp.status = "paid" /\ resp.http = 200
    /\ resp.op \in accept_ops
    /\ \E o1, o2, o3 \in OrderIds :
          /\ db.orders[o1].order_type = "wallet_load" /\ db.orders[o1].status = "success"
          /\ db.orders[o2].order_type = "product_topup"
          /\ db.orders[o2].status = "manual_pending"
          /\ db.orders[o3].order_type = "product_topup" /\ db.orders[o3].status = "queued"

\* ---------------------------------------------------------------------
\* The invalid_uid verdict
\* ---------------------------------------------------------------------
\* C19: a dispatch that ends in the verdict invalid_uid takes the order
\* from processing to invalid_uid whatever its retry_count, never to
\* queued; and an order in invalid_uid with no dispatch in flight stays in
\* invalid_uid under every operation other than an administrator's manual
\* re-opening.
C19_InvalidUidIsFinal ==
    [][ \A o \in OrderIds :
          /\ dispatch_ends(o, "invalid_uid")
                => db'.orders[o].status = "invalid_uid"
          /\ ( /\ db.orders[o].status = "invalid_uid"
               /\ dispatches(o) = {}
               /\ resp'.op \notin manual_ops )
                => db'.orders[o].status = "invalid_uid" ]_vars

\* ---------------------------------------------------------------------
\* Wallet loads and automation
\* ---------------------------------------------------------------------
AutoMaxOrders == 2
AutoMaxCount == 1

AutoText == RawText(1000, "910", "R1", FALSE)

NextAuto ==
    \/ update_settings([auto_topup |-> TRUE])
    \/ /\ Len(db.orders) < AutoMaxOrders /\ admin_wallet_recharge("u1", 500)
    \/ /\ Len(db.orders) < AutoMaxOrders /\ create_product_order("u1", 500)
    \/ /\ Len(db.orders) < AutoMaxOrders /\ create_wallet_load_order("u1", 1000)
    \/ ~ delivered(AutoText) /\ receive_sms(AutoText)
    \/ \E o \in OrderIds : tasks = <<>> /\ admin_process_order(o)
    \/ tasks = <<>> /\ admin_process_all_queued
    \/ \E t \in TaskIds : pao_find_order(t)
    \/ \E t \in TaskIds : pao_set_processing(t)
    \/ \E t \in TaskIds : pao_verdict(t, "success")
    \/ \E o \in OrderIds : /\ db.orders[o].retry_count < AutoMaxCount
                             /\ admin_retry_order(o)
    \/ \E o \in OrderIds : \E status \in {"queued", "processing"} :
          /\ db.orders[o].order_type = "wallet_load"
          /\ db.orders[o].status # status
          /\ admin_update_order(o, status)

SpecAuto == Init /\ [][NextAuto]_vars

\* C20: no order of type wallet_load is ever in processing, and there is
\* never an automation task for a wallet_load order.
C20_WalletLoadNeverProcessing ==
    \A o \in OrderIds :
        db.orders[o].order_type = "wallet_load"
            => /\ db.orders[o].status # "processing"
               /\ dispatches(o) = {}

\* C20 as amended: there is never an automation task for a wallet_load
\* order, and the only operation that puts a wallet_load order in
\* processing is the administrator's edit of the order's status.
C20_WalletLoadNeverDispatched ==
    [][ \A o \in 1..Len(db'.orders) :
          db'.orders[o].order_type = "wallet_load"
            => /\ \A t \in 1..Len(tasks') :
                     tasks'[t].op = "process_automation_order"
                        => tasks'[t].order_id # o
               /\ ( /\ db'.orders[o].status = "processing"
                    /\ o \in OrderIds => db.orders[o].status # "processing" )
                    => resp'.op = "admin_update_order" ]_vars

\* the trigger endpoint has just refused a wallet_load order that was in
\* queued, and nothing is dispatched
C20_Witness ==
    /\ resp.op = "admin_process_order" /\ resp.http = 400
    /\ resp.order_id \in OrderIds
    /\ db.orders[resp.order_id].order_type = "wallet_load"
    /\ db.orders[resp.order_id].status = "queued"
    /\ tasks = <<>>

\* ---------------------------------------------------------------------
\* Dispatch
\* ---------------------------------------------------------------------
DispMaxOrders == 2
DispMaxTasks == 2

NextDispatch ==
    \/ \E b \in BOOLEAN : update_settings([auto_topup |-> b])
    \/ /\ Len(db.orders) < DispMaxOrders /\ admin_wallet_recharge("u1", 500)
    \/ /\ Len(db.orders) < DispMaxOrders /\ create_product_order("u1", 500)
    \/ \E o \in OrderIds : /\ is_product_order(db.orders[o])
                             /\ db.orders[o].status \in {"queued", "manual_pending"}
                             /\ admin_update_order(o, "paid")
    \/ /\ Len(tasks) < DispMaxTasks /\ \E o \in OrderIds : admin_process_order(o)
    \/ /\ tasks = <<>> /\ admin_process_all_queued
    \/ \E t \in TaskIds : pao_find_order(t)
    \/ \E t \in TaskIds : pao_set_processing(t)
    \/ \E t \in TaskIds : pao_verdict(t, "success")

SpecDispatch == Init /\ [][NextDispatch]_vars

\* the workers that have set the order to processing and are running the
\* collaborator
invoked(ts, o) ==
    {t \in 1..Len(ts) : /\ ts[t].op = "process_automation_order"
                         /\ ts[t].order_id = o
                         /\ ts[t].pc = "run_automation"}

C22_BalanceNeverNegative ==
    /\ \A u \in Users : db.users[u].wallet_balance_paisa >= 0
    /\ \A i \in debit_txs : db.wallet_transactions[i].balance_after_paisa >= 0

\* two debits of one user, a wallet-paid order and a redeem, were computed
\* from the same balance and both were written
C22_Witness ==
    /\ quiescent
    /\ \E i, j \in debit_txs :
          /\ db.wallet_transactions[i].type = "order_payment"
          /\ db.wallet_transactions[j].type = "debit"
          /\ db.wallet_transactions[i].user_id = db.wallet_transactions[j].user_id
          /\ db.wallet_transactions[i].balance_before_paisa
                = db.wallet_transactions[j].balance_before_paisa
          /\ db.wallet_transactions[i].balance_before_paisa > 0

\* ---------------------------------------------------------------------
\* The job that flags stale notifications
\* ---------------------------------------------------------------------
\* scheduler.add_job(flag_suspicious_sms, 'interval', minutes=15)
FLAG_INTERVAL_MINUTES == 15

FlagMaxDocs == 3
FlagMaxTime == 75

FlagTexts == {RawText(500, "910", "R1", FALSE), RawText(700, "910", "R2", FALSE)}

NextFlag ==
    \/ /\ docs < FlagMaxDocs /\ create_product_order("u1", 500)
    \/ /\ docs < FlagMaxDocs
       /\ \E raw \in FlagTexts : ~ delivered(raw) /\ receive_sms(raw)
    \/ /\ docs < FlagMaxDocs
       /\ \E raw \in FlagTexts : ~ delivered(raw) /\ admin_input_sms(raw)
    \/ flag_suspicious_sms
    \/ /\ now < FlagMaxTime /\ Wait(FLAG_INTERVAL_MINUTES)

SpecFlag == Init /\ [][NextFlag]_vars

\* C23: a run of the job leaves suspicious, with a reason, exactly the
\* notifications that were suspicious already or were unused, not
\* suspicious and parsed more than the window before the run; it changes no
\* order, balance or ledger entry.
C23_FlagsExactlyStale ==
    [][ resp'.op = "flag_suspicious_sms"
          => /\ \A i \in SmsIds :
                  ( /\ db'.sms_messages[i].suspicious = "true"
                    /\ db'.sms_messages[i].suspicious_reason # Missing )
                  <=> \/ db.sms_messages[i].suspicious = "true"
                      \/ /\ db.sms_messages[i].used = FALSE
                         /\ db.sms_messages[i].parsed_at < now - SUSPICIOUS_SMS_MINUTES
             /\ db'.orders = db.orders
             /\ db'.users = db.users
             /\ db'.wallet_transactions = db.wallet_transactions ]_vars

\* =====================================================================
\* The settings cache, one step per database round trip
\* =====================================================================
\* find_one found no settings document; _system_settings_cache is None
NoSettings == [ id |-> Null ]

\* a coroutine that reads or writes the settings
SettingsTask(op, updates, pc) == [ op |-> op, updates |-> updates, pc |-> pc ]

\* update_system_settings: {"$set": updates}
merged(settings, updates) ==
    [k \in DOMAIN settings |-> IF k \in DOMAIN updates THEN updates[k]
                                ELSE settings[k]]

\* GET /admin/system-settings -> get_system_settings with the cache empty:
\* "settings = await db.system_settings.find_one(...)", stored in the cache
\* when a document was found
get_settings ==
    /\ system_settings_cache = NoSettings
    /\ IF db.system_settings # NoSettings
       THEN /\ system_settings_cache' = db.system_settings
            /\ tasks' = Append(tasks, SettingsTask("get_settings", << >>, "done"))
       ELSE /\ tasks' = Append(tasks, SettingsTask("get_settings", << >>, "insert"))
            /\ UNCHANGED system_settings_cache
    /\ UNCHANGED <<db, now, resp, automation_failures>>

\* PUT /admin/system-settings, up to its first round trip: the find_one of
\* get_system_settings when the cache is empty, else the update_one of
\* update_system_settings
start_update_settings(updates) ==
    /\ IF system_settings_cache # NoSettings
       THEN /\ db.system_settings # NoSettings
            /\ db' = [db EXCEPT !.system_settings = merged(@, updates)]
            /\ tasks' = Append(tasks, SettingsTask("update_settings", updates, "find"))
            /\ UNCHANGED system_settings_cache
       ELSE IF db.system_settings # NoSettings
       THEN /\ system_settings_cache' = db.system_settings
            /\ tasks' = Append(tasks, SettingsTask("update_settings", updates, "update"))
            /\ UNCHANGED db
       ELSE /\ tasks' = Append(tasks, SettingsTask("update_settings", updates, "insert"))
            /\ UNCHANGED <<db, system_settings_cache>>
    /\ UNCHANGED <<now, resp, automation_failures>>

\* get_system_settings: "await db.system_settings.insert_one(settings)" of
\* the defaults, then "_system_settings_cache = settings"; a second
\* document with the same id is never the one find_one and update_one pick
gss_insert(t) ==
    /\ tasks[t].pc = "insert"
    /\ db' = IF db.system_settings = NoSettings
             THEN [db EXCEPT !.system_settings = DEFAULT_SYSTEM_SETTINGS]
             ELSE db
    /\ system_settings_cache' = DEFAULT_SYSTEM_SETTINGS
    /\ tasks' = [tasks EXCEPT ![t].pc = IF tasks[t].op = "update_settings"
                                        THEN "update" ELSE "done"]
    /\ UNCHANGED <<now, resp, automation_failures>>

\* update_system_settings: await db.system_settings.update_one(...)
uss_update(t) ==
    /\ tasks[t].pc = "update"
    /\ db.system_settings # NoSettings
    /\ db' = [db EXCEPT !.system_settings = merged(@, tasks[t].updates)]
    /\ tasks' = [tasks EXCEPT ![t].pc = "find"]
    /\ UNCHANGED <<now, resp, automation_failures, system_settings_cache>>

\* update_system_settings: "_system_settings_cache = await
\* db.system_settings.find_one(...)"
uss_find(t) ==
    /\ tasks[t].pc = "find"
    /\ system_settings_cache' = db.system_settings
    /\ tasks' = [tasks EXCEPT ![t].pc = "done"]
    /\ UNCHANGED <<db, now, resp, automation_failures>>

CacheMaxTasks == 3

\* a deployment that has not read its settings yet: no document, no cache
InitFresh ==
    /\ db = [ users |-> [u \in Users |-> [wallet_balance_paisa |-> 0]],
              wallet_transactions |-> <<>>,
              orders |-> <<>>,
              sms_messages |-> <<>>,
              system_alerts |-> <<>>,
              garena_accounts |-> <<[active |-> TRUE]>>,
              system_settings |-> NoSettings ]
    /\ now = 0
    /\ tasks = <<>>
    /\ resp = NoResp
    /\ automation_failures = <<>>
    /\ system_settings_cache = NoSettings

NextCache ==
    \/ /\ Len(tasks) < CacheMaxTasks /\ get_settings
    \/ /\ Len(tasks) < CacheMaxTasks
       /\ \E updates \in {[auto_topup |-> TRUE], [order_expiry_minutes |-> 1]} :
             start_update_settings(updates)
    \/ \E t \in TaskIds : gss_insert(t)
    \/ \E t \in TaskIds : uss_update(t)
    \/ \E t \in TaskIds : uss_find(t)

SpecCache == InitFresh /\ [][NextCache]_vars

\* C24: once a settings write has returned and no coroutine that reads or
\* writes the settings is still running, the cache equals the persisted
\* settings document.
C24_WriteNeverLost ==
    ( /\ quiescent
      /\ \E t \in TaskIds : tasks[t].op = "update_settings" )
        => system_settings_cache = db.system_settings

\* =====================================================================
\* round_up_payment_paisa as a function
\* =====================================================================
RoundMax == 52000

\* a call of round_up_payment_paisa on amount_paisa, and a second call on
\* its result
RoundTask(amount_paisa) ==
    [ op |-> "round_up_payment_paisa", amount_paisa |-> amount_paisa,
      pc |-> "call", rounded |-> NoneInt, again |-> NoneInt ]

InitRound ==
    /\ db = [ users |-> [u \in Users |-> [wallet_balance_paisa |-> 0]],
              wallet_transactions |-> <<>>,
              orders |-> <<>>,
              sms_messages |-> <<>>,
              system_alerts |-> <<>>,
              garena_accounts |-> <<[active |-> TRUE]>>,
              system_settings |-> DEFAULT_SYSTEM_SETTINGS ]
    /\ now = 0
    /\ \E amount_paisa \in 0..RoundMax : tasks = <<RoundTask(amount_paisa)>>
    /\ resp = NoResp
    /\ automation_failures = <<>>
    /\ system_settings_cache = DEFAULT_SYSTEM_SETTINGS

round_call(t) ==
    /\ tasks[t].pc = "call"
    /\ tasks' = [tasks EXCEPT ![t] =
                    [@ EXCEPT !.pc = "done",
                              !.rounded = round_up_payment_paisa(tasks[t].amount_paisa)]]
    /\ UNCHANGED <<db, now, resp, automation_failures, system_settings_cache>>

round_again(t) ==
    /\ tasks[t].pc = "done"
    /\ tasks' = [tasks EXCEPT ![t] =
                    [@ EXCEPT !.pc = "again",
                              !.again = round_up_payment_paisa(tasks[t].rounded)]]
    /\ UNCHANGED <<db, now, resp, automation_failures, system_settings_cache>>

NextRound ==
    \/ \E t \in TaskIds : round_call(t)
    \/ \E t \in TaskIds : round_again(t)

SpecRound == InitRound /\ [][NextRound]_vars

\* the denomination of the band of an amount
denomination(a) == IF a < 10000 THEN 100 ELSE IF a <= 50000 THEN 500 ELSE 1000

\* C26: round_up_payment_paisa(a) is the least multiple of the denomination
\* of a's band (100 below 10000, 500 from 10000 to 50000, 1000 above) that
\* is at least a; so 0 gives 0, 9999 gives 10000 and 45000 gives 45000; and
\* rounding a rounded amount changes nothing.
C26_RoundUpLeastMultiple ==
    \A t \in TaskIds :
        LET a == tasks[t].amount_paisa
            r == tasks[t].rounded
        IN /\ tasks[t].pc \in {"done", "again"}
                => /\ r % denomination(a) = 0
                   /\ r >= a
                   /\ r - denomination(a) < a
                   /\ a = 0 => r = 0
                   /\ a = 9999 => r = 10000
                   /\ a = 45000 => r = 45000
           /\ tasks[t].pc = "again" => tasks[t].again = r

\* 9999 was rounded into the next band, and rounding the result again left
\* it as it was
C26_Witness ==
    \E t \in TaskIds : /\ tasks[t].pc = "again"
                       /\ tasks[t].amount_paisa = 9999
                       /\ tasks[t].rounded = 10000
                       /\ tasks[t].again = 10000

\* ---------------------------------------------------------------------
\* Order intake
\* ---------------------------------------------------------------------
IntakeMaxOrders == 3

\* POST /admin/packages stores any price_rupees, zero included
NextIntake ==
    \/ \E b \in BOOLEAN : update_settings([auto_topup |-> b])
    \/ /\ Len(db.orders) < IntakeMaxOrders
       /\ \E amount_paisa \in {300, 500} : admin_wallet_recharge("u1", amount_paisa)
    \/ /\ Len(db.orders) < IntakeMaxOrders
       /\ \E price_paisa \in {0, 500, 10100} : create_product_order("u1", price_paisa)
    \/ /\ Len(db.orders) < IntakeMaxOrders
       /\ \E load_amount_paisa \in {1000, 10100} :
             create_wallet_load_order("u1", load_amount_paisa)

SpecIntake == Init /\ [][NextIntake]_vars

\* C25: the order stored by order intake has payment_required =
\* locked_price - wallet_used, 0 <= wallet_used <= locked_price and
\* payment_amount >= payment_required; it is left in pending_payment when
\* payment_required > 0, and is paid and enqueued exactly when nothing
\* remains to pay, which for a product order is when the wallet balance
\* covers the price.
C25_IntakeAmounts ==
    [][ ( /\ resp'.op \in {"create_product_order", "create_wallet_load_order"}
          /\ Len(db'.orders) = Len(db.orders) + 1 )
          => LET o == Len(db'.orders)
                 order == db'.orders[o]
                 balance == db.users[order.user_id].wallet_balance_paisa
             IN /\ order.payment_required_paisa
                      = order.locked_price_paisa - order.wallet_used_paisa
                /\ 0 <= order.wallet_used_paisa
                /\ order.wallet_used_paisa <= order.locked_price_paisa
                /\ order.payment_amount_paisa >= order.payment_required_paisa
                /\ order.payment_required_paisa > 0
                      <=> order.status = "pending_payment"
                /\ order.payment_required_paisa = 0
                      <=> /\ resp'.status = "paid"
                          /\ order.status \in {"queued", "manual_pending"}
                /\ order.order_type = "product_topup"
                      => ( order.payment_required_paisa = 0
                             <=> balance >= order.locked_price_paisa ) ]_vars

\* ---------------------------------------------------------------------
\* verify_payment as a coroutine: one step per group of database round
\* trips, the order document read at the start carried along
\* ---------------------------------------------------------------------
VerifyTask(order, sent_amount_paisa, last_3_digits) ==
    [ op |-> "verify_payment", pc |-> "found_order", order |-> order,
      sent_amount_paisa |-> sent_amount_paisa, last_3_digits |-> last_3_digits,
      sms_id |-> NoneInt ]

\* order = find_one({"id": order_id}) and the check of its status
vp_find_order(order_id, sent_amount_paisa, last_3_digits) ==
    /\ order_id \in OrderIds
    /\ db.orders[order_id].status \in {"pending_payment", "manual_review"}
    /\ tasks' = Append(tasks, VerifyTask(db.orders[order_id], sent_amount_paisa,
                                         last_3_digits))
    /\ resp' = [NoResp EXCEPT !.op = "vp_find_order", !.order_id = order_id]
    /\ UNCHANGED <<db, now, automation_failures, system_settings_cache>>

\* the payment details are written, the notification is looked up and the
\* evidence on other orders is checked
vp_find_sms(t) ==
    /\ tasks[t].op = "verify_payment"
    /\ tasks[t].pc = "found_order"
    /\ LET order == tasks[t].order
           order_id == order.id
           d1 == [db EXCEPT !.orders[order_id].payment_last3digits =
                                tasks[t].last_3_digits]
           found == matching_sms(d1, order.payment_required_paisa,
                                 tasks[t].sent_amount_paisa, tasks[t].last_3_digits)
           r0 == [NoResp EXCEPT !.op = "verify_payment", !.order_id = order_id]
       IN IF found = {}
          THEN /\ db' = [d1 EXCEPT !.orders[order_id].status = "manual_review"]
               /\ tasks' = [tasks EXCEPT ![t].pc = "done"]
               /\ resp' = [r0 EXCEPT !.status = "manual_review"]
          ELSE \E sms_id \in found :
               LET sms == d1.sms_messages[sms_id]
                   other(j) == d1.orders[j].id # order_id
                   dup == \/ /\ sms.rrn # Null
                             /\ \E j \in OrderIds : other(j) /\
                                   d1.orders[j].payment_rrn = OrderRrn(sms.rrn)
                          \/ \E j \in OrderIds : other(j) /\
                                   d1.orders[j].sms_fingerprint = sms.fingerprint
                   r1 == [r0 EXCEPT !.sms_id = sms_id, !.amount = sms.amount_paisa]
               IN IF dup
                  THEN /\ db' = [d1 EXCEPT !.orders[order_id].status =
                                              "duplicate_payment"]
                       /\ tasks' = [tasks EXCEPT ![t].pc = "done"]
                       /\ resp' = [r1 EXCEPT !.status = "duplicate_payment"]
                  ELSE /\ db' = d1
                       /\ tasks' = [tasks EXCEPT ![t].pc = "matched",
                                                 ![t].sms_id = sms_id]
                       /\ resp' = [r1 EXCEPT !.op = "vp_find_sms"]
    /\ UNCHANGED <<now, automation_failures, system_settings_cache>>

\* the notification is marked used, process_payment runs on the order
\* document read at the start, a paid order is enqueued
vp_pay(t) ==
    /\ tasks[t].op = "verify_payment"
    /\ tasks[t].pc = "matched"
    /\ LET order == tasks[t].order
           sms_id == tasks[t].sms_id
           sms == db.sms_messages[sms_id]
           d2 == mark_used(db, sms_id, order.id)
           pp == process_payment(d2, order, sms.amount_paisa, sms.rrn,
                                 sms.fingerprint)
           d4 == IF pp.status = "paid" THEN add_to_queue(pp.db, order.id)
                 ELSE pp.db
       IN /\ db' = d4
          /\ tasks' = [tasks EXCEPT ![t].pc = IF pp.raised THEN "raised" ELSE "done"]
          /\ resp' = [NoResp EXCEPT !.op = "verify_payment", !.order_id = order.id,
                                    !.sms_id = sms_id, !.amount = sms.amount_paisa,
                                    !.status = pp.status, !.matched = ~ pp.raised,
                                    !.http = IF pp.raised THEN 500 ELSE 200]
    /\ UNCHANGED <<now, automation_failures, system_settings_cache>>

\* ---------------------------------------------------------------------
\* Specification: the expiry job against payment on the same order
\* ---------------------------------------------------------------------
RaceMaxOrders == 2
RaceMaxTasks == 1
RaceMaxTime == 2

NextRace ==
    \/ /\ Len(db.orders) < RaceMaxOrders
       /\ admin_wallet_recharge("u1", 300)
    \/ /\ Len(db.orders) < RaceMaxOrders
       /\ create_product_order("u1", 500)
    \/ update_settings([order_expiry_minutes |-> 1])
    \/ now < RaceMaxTime /\ Tick
    \/ expire_old_orders
    \/ \E raw \in {RawText(200, "910", "R1", FALSE)} :
          ~ delivered(raw) /\ receive_sms(raw)
    \/ /\ Len(tasks) < RaceMaxTasks
       /\ \E o \in OrderIds : vp_find_order(o, 200, "910")
    \/ \E t \in TaskIds : vp_find_sms(t)
    \/ \E t \in TaskIds : vp_pay(t)

SpecRace == Init /\ [][NextRace]_vars

\* a payment is credited or attached to order o
payment_attached(o) ==
    \/ db.orders[o].payment_received_paisa > 0
    \/ \E i \in SmsIds : db.sms_messages[i].matched_order_id = o

\* C27: of the expiry of a pending order and its payment exactly one takes
\* effect: an order whose wallet portion was refunded is expired and stays
\* so, never paid or queued, and an expired order has no payment credited
\* or attached.
C27_ExpiryOrPayment ==
    \A o \in OrderIds :
       /\ refunds(o) # {} => db.orders[o].status = "expired"
       /\ db.orders[o].status = "expired" => ~ payment_attached(o)

\* ---------------------------------------------------------------------
\* Specification: a worker in flight against the un-stick job
\* ---------------------------------------------------------------------
UnstickMaxOrders == 2
UnstickMaxTime == 15
UnstickMaxCount == 2
UnstickMaxTasks == 2

NextUnstick ==
    \/ update_settings([auto_topup |-> TRUE])
    \/ /\ Len(db.orders) < UnstickMaxOrders
       /\ admin_wallet_recharge("u1", 1000)
    \/ /\ Len(db.orders) < UnstickMaxOrders
       /\ create_product_order("u1", 500)
    \/ \E o \in OrderIds : /\ Len(tasks) < UnstickMaxTasks
                           /\ db.orders[o].status = "queued"
                           /\ db.orders[o].retry_count < UnstickMaxCount
                           /\ admin_process_order(o)
    \/ \E t \in TaskIds : pao_find_order(t)
    \/ \E t \in TaskIds : pao_set_processing(t)
    \/ \E t \in TaskIds : \E verdict \in {"success", "purchase_failed"} :
          pao_verdict(t, verdict)
    \/ cleanup_processing_orders
    \/ /\ now < UnstickMaxTime
       /\ Wait(CLEANUP_INTERVAL_MINUTES)

SpecUnstick == Init /\ [][NextUnstick]_vars

\* C28: with a worker in flight and the un-stick job running, retry_count
\* of an order never decreases, and every reset by the job and every failure
\* verdict of a worker adds one to it, so that it ends at its initial value
\* plus the resets plus the failures: the worker's result write does not
\* take back the job's increment.
C28_RetryCountAccumulates ==
    [][ \A o \in OrderIds :
          LET before == db.orders[o].retry_count
              after == db'.orders[o].retry_count
          IN /\ after >= before
             /\ ( /\ resp'.op = "cleanup_processing_orders"
                  /\ processing_too_long(o) ) => after = before + 1
             /\ ( /\ resp'.op = "process_automation_order"
                  /\ resp'.order_id = o
                  /\ resp'.status = "purchase_failed" ) => after = before + 1 ]_vars

\* C29: when an order is dispatched twice while queued, or dispatched again
\* after the un-stick job requeued it while the first worker still runs, at
\* most one worker at a time is running the fulfillment collaborator for the
\* order, and the collaborator's success is written for an order at most
\* once.
C29_SingleFulfillment ==
    [][ \A o \in OrderIds :
          /\ Cardinality(invoked(tasks', o)) <= 1
          /\ ( /\ resp'.op = "process_automation_order"
               /\ resp'.order_id = o
               /\ resp'.status = "success" ) => db.orders[o].status # "success" ]_vars

\* ---------------------------------------------------------------------
\* Specification: one notification and the four ways to apply it
\* ---------------------------------------------------------------------
OnceMaxOrders == 2
OnceMaxTasks == 2

NextOnce ==
    \/ /\ Len(db.orders) < OnceMaxOrders
       /\ create_wallet_load_order("u1", 1000)
    \/ \E raw \in {RawText(1000, "910", "R1", FALSE)} :
          ~ delivered(raw) /\ receive_sms(raw)
    \/ /\ Len(tasks) < OnceMaxTasks
       /\ \E o \in OrderIds : vp_find_order(o, 1000, "910")
    \/ \E t \in TaskIds : vp_find_sms(t)
    \/ \E t \in TaskIds : vp_pay(t)
    \/ \E p \in SmsIds, o \in OrderIds :
          /\ db.orders[o].status = "pending_payment"
          /\ link_payment_to_order(p, o)
    \/ \E p \in SmsIds, o \in OrderIds :
          /\ db.orders[o].status = "pending_payment"
          /\ admin_manual_match(p, o)

SpecOnce == Init /\ [][NextOnce]_vars

\* the ledger entries that credit a load amount or a surplus
payment_credits(d) ==
    {i \in 1..Len(d.wallet_transactions) :
        d.wallet_transactions[i].type \in {"wallet_load", "overpayment_credit"}}

\* C30: a notification has a financial effect at most once: when auto-match,
\* verify_payment, the staff link or the admin match applies process_payment
\* for a notification, no order carries that notification's evidence yet, so
\* no second order becomes paid from it and no load amount or surplus is
\* credited for it a second time.
C30_NotificationPaysOnce ==
    [][ \A i \in 1..Len(db'.sms_messages) :
          ( /\ resp'.op \in {"receive_sms", "verify_payment",
                              "link_payment_to_order", "admin_manual_match"}
            /\ resp'.sms_id = i
            /\ resp'.status = "paid" )
          => /\ \A o \in OrderIds :
                   db.orders[o].sms_fingerprint # db'.sms_messages[i].fingerprint
             /\ Cardinality(payment_credits(db')) <= Cardinality(payment_credits(db)) + 1 ]_vars

\* ---------------------------------------------------------------------
\* Claims about the wallet portion of an order
\* ---------------------------------------------------------------------
\* the order_payment ledger entries written for an order
order_payments(o) ==
    {i \in 1..Len(db.wallet_transactions) :
        /\ db.wallet_transactions[i].type = "order_payment"
        /\ db.wallet_transactions[i].order_id = o}

\* C31: once the order creations in flight have returned, every order that
\* records wallet_used > 0 is backed by exactly one order_payment debit of
\* that amount on its owner's ledger; no order records a wallet portion
\* that was never debited.
C31_WalletPortionDebited ==
    quiescent =>
      \A o \in OrderIds :
         ( /\ db.orders[o].order_type = "product_topup"
           /\ db.orders[o].wallet_used_paisa > 0 )
         => /\ Cardinality(order_payments(o)) = 1
            /\ \A i \in order_payments(o) :
                  /\ db.wallet_transactions[i].user_id = db.orders[o].user_id
                  /\ db.wallet_transactions[i].amount_paisa
                        = - db.orders[o].wallet_used_paisa

\* ---------------------------------------------------------------------
\* Claims about the lifecycle table
\* ---------------------------------------------------------------------
\* the edges of the lifecycle table
LifecycleEdges ==
    { <<"pending_payment", "paid">>, <<"paid", "queued">>,
      <<"paid", "manual_pending">>, <<"paid", "success">>,
      <<"queued", "processing">>, <<"processing", "success">>,
      <<"processing", "queued">>, <<"processing", "invalid_uid">>,
      <<"processing", "manual_review">>, <<"pending_payment", "expired">>,
      <<"pending_payment", "suspicious">>, <<"manual_review", "suspicious">>,
      <<"pending_payment", "duplicate_payment">>,
      <<"manual_review", "duplicate_payment">> }

\* a payment handler writes the status twice (paid, then where add_to_queue
\* routes it), and so does a worker that finds no active account
\* (processing, then manual_review): such a step follows the table when it
\* is two consecutive edges
follows_table(from, to, op, outcome) ==
    \/ from = to
    \/ <<from, to>> \in LifecycleEdges
    \/ <<from, "paid">> \in LifecycleEdges /\ <<"paid", to>> \in LifecycleEdges
    \/ /\ op = "process_automation_order" /\ outcome = "no_garena_account"
       /\ from = "queued" /\ to = "manual_review"

\* the operations a person triggers on an order
manual_operations ==
    {"link_payment_to_order", "admin_manual_match", "admin_retry_order",
     "admin_update_order", "update_order_uid"}

\* C32: every status change made by an automatic operation (ingestion,
\* verify_payment, enqueue, dispatch, retry handling, the maintenance jobs)
\* is an edge of the lifecycle table.
C32_OnlyLifecycleEdges ==
    [][ resp'.op \notin manual_operations
          => \A o \in OrderIds :
                follows_table(db.orders[o].status, db'.orders[o].status,
                              resp'.op, resp'.status) ]_vars

\* C33: a dispatch whose fulfillment invocation ends in an exception is
\* handled like a transient failure: retry_count goes up by one, the order
\* returns to queued while the new count is below 3 and goes to
\* manual_review otherwise, and the failure is recorded for the circuit
\* breaker.
C33_ExceptionIsTransient ==
    [][ \A o \in OrderIds :
          dispatch_ends(o, "raised")
            => /\ db'.orders[o].retry_count = db.orders[o].retry_count + 1
               /\ db'.orders[o].status
                     = IF db'.orders[o].retry_count < MAX_RETRIES THEN "queued"
                       ELSE "manual_review"
               /\ Len(automation_failures') = Len(automation_failures) + 1 ]_vars

\* ---------------------------------------------------------------------
\* Specification: the fulfillment queue under fair scheduling.  The
\* dispatcher is POST /admin/automation/process-all; the background tasks
\* it starts and the un-stick job run whenever they can.
\* ---------------------------------------------------------------------
LiveMaxOrders == 2
LiveMaxTasks == 2
LiveMaxTime == 15

dispatcher == Len(tasks) < LiveMaxTasks /\ admin_process_all_queued

worker ==
    \/ \E t \in TaskIds : pao_find_order(t)
    \/ \E t \in TaskIds : pao_set_processing(t)
    \/ \E t \in TaskIds :
          \E verdict \in {"success", "purchase_failed", "invalid_uid"} :
             pao_verdict(t, verdict)

NextLive ==
    \/ update_settings([auto_topup |-> TRUE])
    \/ /\ Len(db.orders) < LiveMaxOrders
       /\ admin_wallet_recharge("u1", 500)
    \/ /\ Len(db.orders) < LiveMaxOrders
       /\ create_product_order("u1", 500)
    \/ dispatcher
    \/ worker
    \/ cleanup_processing_orders
    \/ /\ now < LiveMaxTime
       /\ Wait(CLEANUP_INTERVAL_MINUTES)

SpecLive ==
    /\ Init /\ [][NextLive]_vars
    /\ WF_vars(dispatcher) /\ WF_vars(worker) /\ WF_vars(cleanup_processing_orders)

\* the product orders stored
product_orders == {o \in OrderIds : is_product_order(db.orders[o])}

\* C34: with the dispatcher and the workers scheduled fairly and a
\* collaborator that always returns a verdict, every order that is queued
\* is eventually in success, invalid_uid or manual_review, and no order gets
\* more than three failed attempts (every failure is recorded in
\* automation_failures, which nothing prunes within the time bound).
C34_QueuedEventuallySettles ==
    /\ \A o \in 1..LiveMaxOrders :
          (o \in OrderIds /\ db.orders[o].status = "queued")
            ~> ( /\ o \in OrderIds
                 /\ db.orders[o].status \in {"success", "invalid_uid",
                                              "manual_review"} )
    /\ [](Len(automation_failures) <= MAX_RETRIES * Cardinality(product_orders))

\* C35: no order is in queued with retry_count >= 3: the worker's failure
\* handling and the un-stick job route an order whose retry_count has
\* reached 3 to manual_review instead of returning it to the queue.
C35_NoQueuedAfterThree ==
    \A o \in OrderIds :
       ~ ( /\ db.orders[o].status = "queued"
           /\ db.orders[o].retry_count >= MAX_RETRIES )

\* ---------------------------------------------------------------------
\* Specification: the three maintenance jobs.  Orders and notifications
\* are created at minute 0; the jobs and the workers run at any time.
\* ---------------------------------------------------------------------
JobsMaxOrders == 2
JobsMaxTime == 75

NextJobs ==
    \/ /\ now = 0
       /\ \/ \E updates \in TerminalSettings : update_settings(updates)
          \/ /\ Len(db.orders) < JobsMaxOrders
             /\ \E amount_paisa \in {300, 500} :
                   admin_wallet_recharge("u1", amount_paisa)
          \/ /\ Len(db.orders) < JobsMaxOrders
             /\ create_product_order("u1", 500)
          \/ \E raw \in {RawText(500, "910", "R1", FALSE)} :
                ~ delivered(raw) /\ receive_sms(raw)
    \/ \E o \in OrderIds : /\ dispatches(o) = {}
                           /\ db.orders[o].status = "queued"
                           /\ admin_process_order(o)
    \/ \E t \in TaskIds : pao_find_order(t)
    \/ \E t \in TaskIds : pao_set_processing(t)
    \/ expire_old_orders
    \/ flag_suspicious_sms
    \/ cleanup_processing_orders
    \/ /\ now < JobsMaxTime
       /\ Wait(FLAG_INTERVAL_MINUTES)

SpecJobs == Init /\ [][NextJobs]_vars

MaintenanceJobs ==
    {"expire_old_orders", "flag_suspicious_sms", "cleanup_processing_orders"}

\* C36: each maintenance job is idempotent: a run that directly follows a
\* run of the same job, with no operation and no time in between, leaves
\* orders, balances, wallet transactions and notifications as they were.
C36_JobsIdempotent ==
    [][ ( /\ resp'.op \in MaintenanceJobs
          /\ resp.op = resp'.op
          /\ now' = now )
          => /\ db'.orders = db.orders
             /\ db'.users = db.users
             /\ db'.wallet_transactions = db.wallet_transactions
             /\ db'.sms_messages = db.sms_messages ]_vars

\* a second run of the expiry job, right after the run that expired an
\* order and refunded its wallet portion; of the flag job, after the run that
\* flagged a notification; of the un-stick job, after the run that requeued
\* an order
C36_Witness ==
    /\ resp.amount = 0
    /\ \/ /\ resp.op = "expire_old_orders"
          /\ \E o \in OrderIds : /\ db.orders[o].status = "expired"
                                  /\ db.orders[o].expired_at = now
                                  /\ refunds(o) # {}
       \/ /\ resp.op = "cleanup_processing_orders"
          /\ \E o \in OrderIds : /\ db.orders[o].status = "queued"
                                  /\ db.orders[o].automation_state = "reset_from_stuck"
\* ---------------------------------------------------------------------
\* The frame of the expire-stale-orders job
\* ---------------------------------------------------------------------
\* the orders the job's update_many selects: pending_payment and created
\* before the expiry threshold
stale_pending(o) ==
    /\ db.orders[o].status = "pending_payment"
    /\ db.orders[o].created_at < now - db.system_settings.order_expiry_minutes

\* C37: a run of the expire-stale-orders job leaves every order that is not
\* pending_payment and older than the expiry window as it was, writes no
\* refund for it, and leaves the balance and the transactions of a user who
\* owns no such order unchanged.
C37_ExpiryFrame ==
    [][ resp'.op = "expire_old_orders"
          => /\ \A o \in OrderIds :
                   ~ stale_pending(o)
                     => /\ db'.orders[o] = db.orders[o]
                        /\ refunds(o)' = refunds(o)
             /\ \A u \in Users :
                   (\A o \in OrderIds : db.orders[o].user_id = u => ~ stale_pending(o))
                     => /\ db'.users[u] = db.users[u]
                        /\ SelectSeq(db'.wallet_transactions, LAMBDA t : t.user_id = u)
                             = SelectSeq(db.wallet_transactions, LAMBDA t : t.user_id = u) ]_vars


\* ---------------------------------------------------------------------
\* Orders put into suspicious
\* ---------------------------------------------------------------------
\* the step puts order o into suspicious
becomes_suspicious(o) ==
    /\ db.orders[o].status # "suspicious"
    /\ db'.orders[o].status = "suspicious"

\* C38: every step that puts an order into suspicious leaves a non-empty
\* suspicious reason on the order and appends a system alert in the same
\* step.
C38_SuspiciousHasReasonAndAlert ==
    [][ \A o \in OrderIds :
          becomes_suspicious(o)
            => /\ db'.orders[o].suspicious_reason \notin {Missing, Null, ""}
               /\ Len(db'.system_alerts) > Len(db.system_alerts) ]_vars

\* ---------------------------------------------------------------------
\* Specification: ingestion with the auto-matching flag switched on and off
\* ---------------------------------------------------------------------
GateMaxDocs == 3

\* a full notification, one whose text carries no amount and one whose
\* text carries no sender digits
GateTexts == { RawText(700, "910", "R1", FALSE), RawText(NoneInt, "910", "R2", FALSE),
               RawText(700, Null, "R3", FALSE) }

NextGate ==
    \/ \E b \in BOOLEAN : update_settings([auto_payment_check |-> b])
    \/ /\ docs < GateMaxDocs
       /\ create_product_order("u1", 500)
    \/ \E o \in OrderIds : verify_payment(o, 500, "910")
    \/ \E o \in OrderIds : /\ db.orders[o].status = "manual_review"
                             /\ admin_update_order(o, "pending_payment")
    \/ \E raw \in GateTexts :
          /\ docs < GateMaxDocs \/ delivered(raw)
          /\ receive_sms(raw)
    \/ \E raw \in GateTexts :
          /\ docs < GateMaxDocs \/ delivered(raw)
          /\ admin_input_sms(raw)
    \/ \E raw \in GateTexts :
          /\ docs < GateMaxDocs \/ forwarded(raw)
          /\ sms_ingest(raw, DeviceFingerprint(raw), Null, now)

SpecGate == Init /\ [][NextGate]_vars

\* the step stores a notification that no duplicate check catches: its
\* fingerprint was new, and no order carries its reference number or its
\* fingerprint
stores_non_duplicate ==
    /\ resp'.op \in ingest_ops
    /\ Len(db'.sms_messages) = Len(db.sms_messages) + 1
    /\ LET sms_doc == db'.sms_messages[Len(db'.sms_messages)]
       IN \A o \in OrderIds :
             /\ sms_doc.rrn # Null => db.orders[o].payment_rrn # OrderRrn(sms_doc.rrn)
             /\ db.orders[o].sms_fingerprint # sms_doc.fingerprint

counted_failures(fs, t, W) ==
    SelectSeq(fs, LAMBDA f : f > t - W)

\* C40: when a failure is recorded and the threshold is evaluated, the
\* failures counted under the configured window W are the failures within W
\* known before the step and the new one: none that is less than W old is
\* lost, and none older than W is counted.
C40_WindowCountsAllRecent ==
    [][ failure_recorded =>
          LET W == db.system_settings.automation_fail_window_minutes
          IN /\ W >= 1
             /\ counted_failures(automation_failures', now, W)
                  = Append(counted_failures(automation_failures, now, W), now) ]_vars

====
